---- MODULE Spec2Model ----
(***************************************************************************)
(* Order fulfilment saga of the Microservices demo shop.                   *)
(*                                                                         *)
(* The model covers the Inventory Ledger (services/inventory), the        *)
(* operations of the Order Ledger (services/orders: create, the pay saga,  *)
(* cancel, status push, received),                                         *)
(* the Payment Processor (services/payments: charge, refund), the Shipment *)
(* Tracker (services/shipping: fulfill, advance) and the notifications the *)
(* saga and advance send.  Every handler is split at its awaits: one       *)
(* action per database statement, since every statement goes through       *)
(* pool.query on its own and is therefore its own transaction.  An HTTP    *)
(* call of the saga to a leaf service is modelled by the steps of the leaf *)
(* handler, executed on behalf of the calling request.                     *)
(*                                                                         *)
(* Specifications: SpecInv, SpecInvSeq and SpecHeld are the inventory      *)
(* service called directly (concurrently, one call at a time, and with a   *)
(* reservation held initially); Spec is the pay saga; SpecFail is the pay  *)
(* saga with leaf calls that fail; SpecComp is the pay saga with commit    *)
(* and release calls that are answered with a failure; SpecPay is the      *)
(* payments service; SpecShip, SpecShipSeq the shipping service after a    *)
(* paid order, SpecShipFail the same with failing notify and push calls;   *)
(* SpecOrd is the Order Ledger (create, pay, cancel, status push,          *)
(* received) after a paid order; SpecTrack is advance, status push and     *)
(* received after a paid order; SpecLoss is the pay saga with a fulfill    *)
(* whose insert fails; SpecLive is Spec with weak fairness of the steps of *)
(* every request.                                                          *)
(***************************************************************************)
EXTENDS Integers, Sequences, FiniteSets, TLC

(* ------------------------------ bounds -------------------------------- *)

\* Number of HTTP requests issued in one behaviour (each slot is one request).
NumReqs == 2
\* Largest initial stock quantity of a product.
MaxStock == 2
\* Largest quantity of an order or of a direct reservation request.
MaxQty == 2
\* Number of orders that can be created.
MaxOrders == 2

(* --------------------------- fixed catalogue --------------------------- *)

Reqs == 1..NumReqs

\* Product 1 is a seeded product, product 2 was created through POST /products.
Products == {1, 2}
\* A product id that is in no row of products (the foreign key of stock fails).
UnknownProduct == 9

\* products.price in cents.  numeric(12,2) rounds a positive sub-cent price
\* to 0.00, which is the price of product 2.
Price(productId) == IF productId = 1 THEN 2000 ELSE 0

\* Marker for "no row in table stock for this product".
NoRow == -1000

\* Reservation ids used by direct callers of the inventory service.
ClientRIds == {<<"a">>, <<"b">>}
NoId == <<>>

VARIABLES
  stock,          \* table stock: product_id -> qty, or NoRow
  stock0,         \* the stock table as it was initially (never changes)
  reservations,   \* table reservations: set of rows
  orders,         \* table orders: sequence of rows, index = id
  payments,       \* table payments: set of rows
  shipments,      \* table shipments: set of rows
  stages,         \* table shipment_stages: tracking_id -> sequence of names
  notifications,  \* table notifications: set of rows
  now,            \* last value returned by Date.now()
  req             \* the HTTP requests: slot -> state of the handler

vars == <<stock, stock0, reservations, orders, payments, shipments, stages,
          notifications, now, req>>

(* ----------------------------- requests -------------------------------- *)

\* A request that has not been issued yet.  The fields are the locals of the
\* handler; calls and net are history fields: the leaf calls the request has
\* issued with their answers, and the sum of the changes its own inventory
\* calls have made to stock.qty.
\* pstatus and sstatus are the status the handler has read from a payment
\* or a shipment (ostatus: from an order); rstatus and done are the body of
\* the response of advance; otracking is the tracking_id of the order row
\* that pay has read.
Idle ==
  [kind |-> "none", pc |-> "idle", auth |-> FALSE, order |-> 0,
   reservationId |-> NoId, productId |-> 0, qty |-> 0, available |-> 0,
   attempt |-> 0, amount |-> 0, trackingId |-> NoId, code |-> 0,
   ostatus |-> "", calls |-> <<>>, net |-> 0,
   paymentId |-> NoId, currency |-> "", pstatus |-> "",
   sstatus |-> "", next |-> "", rstatus |-> "", done |-> FALSE,
   otracking |-> NoId]

\* One leaf call (or status update) issued by a request, with its answer.
Call(name, arg, code) == [call |-> name, arg |-> arg, code |-> code]

InFlight(r) == req[r].pc \notin {"idle", "done"}
Quiescent == \A r \in Reqs : ~InFlight(r)

\* Slots are taken in order: the slots are interchangeable.
CanStart(r) ==
  /\ req[r].pc = "idle"
  /\ \A s \in Reqs : s < r => req[s].pc # "idle"

\* AfterInventory of a saga that treats a failed commit as a failed payment.
AfterInventoryChecksCommit(rq, code) ==
  IF rq.kind = "pay"
  THEN IF rq.pc \in {"rel_delete", "rel_update"}
       THEN [rq EXCEPT !.code = code, !.pc = "p_set_failed",
                       !.calls = Append(@, Call("release", "", code))]
       ELSE IF rq.pc = "commit"
       THEN [rq EXCEPT !.code = code,
                       !.pc = IF code = 200 THEN "p_fulfill" ELSE "p_set_failed",
                       !.calls = Append(@, Call("commit", "", code))]
       ELSE [rq EXCEPT !.code = code, !.pc = "p_reserved",
                       !.calls = Append(@, Call("reserve", "", code))]
  ELSE [rq EXCEPT !.code = code, !.pc = "done"]

\* Where a request continues when the inventory service has answered.
AfterInventory(rq, code) ==
  IF rq.kind = "pay"
  THEN IF rq.pc \in {"rel_delete", "rel_update"}
       THEN [rq EXCEPT !.code = code, !.pc = "p_set_failed",
                       !.calls = Append(@, Call("release", "", code))]
       ELSE IF rq.pc = "commit"
       THEN [rq EXCEPT !.code = code, !.pc = "p_fulfill",
                       !.calls = Append(@, Call("commit", "", code))]
       ELSE [rq EXCEPT !.code = code, !.pc = "p_reserved",
                       !.calls = Append(@, Call("reserve", "", code))]
  ELSE [rq EXCEPT !.code = code, !.pc = "done"]

(* ------------------------- Inventory Ledger ---------------------------- *)

\* GET /inventory/:productId and the read in reserve: rows[0]?.qty || 0
StockQty(productId) ==
  IF productId \notin DOMAIN stock \/ stock[productId] = NoRow THEN 0
  ELSE stock[productId]

RowsOf(reservationId) ==
  {row \in reservations : row.reservation_id = reservationId}

\* POST /inventory/reserve, called directly: validation of the body.
ReserveCall(r, reservationId, productId, qty) ==
  /\ CanStart(r)
  /\ req' = [req EXCEPT ![r] =
       IF qty > 0
       THEN [Idle EXCEPT !.kind = "reserve", !.pc = "rsv_ensure",
                         !.reservationId = reservationId,
                         !.productId = productId, !.qty = qty]
       ELSE [Idle EXCEPT !.kind = "reserve", !.pc = "done", !.code = 400,
                         !.reservationId = reservationId,
                         !.productId = productId, !.qty = qty]]
  /\ UNCHANGED <<stock, stock0, reservations, orders, payments, shipments,
                 stages, notifications, now>>

\* ensureStockRow: insert ... on conflict do nothing.  The insert violates the
\* foreign key of stock when the product does not exist, and the handler throws.
ReserveEnsure(r) ==
  /\ req[r].pc = "rsv_ensure"
  /\ IF req[r].productId \notin Products
     THEN /\ req' = [req EXCEPT ![r] = AfterInventory(req[r], 500)]
          /\ UNCHANGED stock
     ELSE /\ req' = [req EXCEPT ![r].pc = "rsv_select"]
          /\ stock' = IF stock[req[r].productId] = NoRow
                      THEN [stock EXCEPT ![req[r].productId] = 0]
                      ELSE stock
  /\ UNCHANGED <<stock0, reservations, orders, payments, shipments, stages,
                 notifications, now>>

\* ReserveSelect without the check of the available quantity.
ReserveSelectNoCheck(r) ==
  /\ req[r].pc = "rsv_select"
  /\ req' = [req EXCEPT ![r].available = StockQty(req[r].productId),
                        ![r].pc = "rsv_update"]
  /\ UNCHANGED <<stock, stock0, reservations, orders, payments, shipments,
                 stages, notifications, now>>

\* select qty ... for update, then the check of the available quantity.
ReserveSelect(r) ==
  /\ req[r].pc = "rsv_select"
  /\ LET available == StockQty(req[r].productId) IN
     req' = [req EXCEPT ![r] =
       IF available < req[r].qty
       THEN AfterInventory([req[r] EXCEPT !.available = available], 409)
       ELSE [req[r] EXCEPT !.available = available, !.pc = "rsv_update"]]
  /\ UNCHANGED <<stock, stock0, reservations, orders, payments, shipments,
                 stages, notifications, now>>

\* update stock set qty=qty-$1
ReserveUpdate(r) ==
  /\ req[r].pc = "rsv_update"
  /\ stock' = [stock EXCEPT ![req[r].productId] = @ - req[r].qty]
  /\ req' = [req EXCEPT ![r].pc = "rsv_insert", ![r].net = @ - req[r].qty]
  /\ UNCHANGED <<stock0, reservations, orders, payments, shipments, stages,
                 notifications, now>>

\* insert into reservations: reservation_id is unique, a duplicate throws.
ReserveInsert(r) ==
  /\ req[r].pc = "rsv_insert"
  /\ IF RowsOf(req[r].reservationId) # {}
     THEN /\ req' = [req EXCEPT ![r] = AfterInventory(req[r], 500)]
          /\ UNCHANGED reservations
     ELSE /\ req' = [req EXCEPT ![r] = AfterInventory(req[r], 200)]
          /\ reservations' = reservations \cup
               {[reservation_id |-> req[r].reservationId,
                 product_id |-> req[r].productId,
                 qty |-> req[r].qty, by |-> r]}
  /\ UNCHANGED <<stock, stock0, orders, payments, shipments, stages,
                 notifications, now>>

\* POST /inventory/commit, called directly.
CommitCall(r, reservationId) ==
  /\ CanStart(r)
  /\ req' = [req EXCEPT ![r] =
       [Idle EXCEPT !.kind = "commit", !.pc = "commit",
                    !.reservationId = reservationId]]
  /\ UNCHANGED <<stock, stock0, reservations, orders, payments, shipments,
                 stages, notifications, now>>

\* Commit of a handler that does not look at rowCount.
CommitNoNotFound(r) ==
  /\ req[r].pc = "commit"
  /\ reservations' = reservations \ RowsOf(req[r].reservationId)
  /\ req' = [req EXCEPT ![r] = AfterInventory(req[r], 200)]
  /\ UNCHANGED <<stock, stock0, orders, payments, shipments, stages,
                 notifications, now>>

\* delete from reservations where reservation_id=$1
Commit(r) ==
  /\ req[r].pc = "commit"
  /\ reservations' = reservations \ RowsOf(req[r].reservationId)
  /\ req' = [req EXCEPT ![r] =
       AfterInventory(req[r], IF RowsOf(req[r].reservationId) = {} THEN 404 ELSE 200)]
  /\ UNCHANGED <<stock, stock0, orders, payments, shipments, stages,
                 notifications, now>>

\* POST /inventory/release, called directly.
ReleaseCall(r, reservationId) ==
  /\ CanStart(r)
  /\ req' = [req EXCEPT ![r] =
       [Idle EXCEPT !.kind = "release", !.pc = "rel_delete",
                    !.reservationId = reservationId]]
  /\ UNCHANGED <<stock, stock0, reservations, orders, payments, shipments,
                 stages, notifications, now>>

\* ReleaseDelete of a handler that selects the row and does not delete it.
ReleaseDeleteKeepsRow(r) ==
  /\ req[r].pc = "rel_delete"
  /\ IF RowsOf(req[r].reservationId) = {}
     THEN req' = [req EXCEPT ![r] = AfterInventory(req[r], 404)]
     ELSE LET row == CHOOSE x \in RowsOf(req[r].reservationId) : TRUE IN
          req' = [req EXCEPT ![r].pc = "rel_update",
                             ![r].productId = row.product_id,
                             ![r].qty = row.qty]
  /\ UNCHANGED <<stock, stock0, reservations, orders, payments, shipments,
                 stages, notifications, now>>

\* delete from reservations ... returning product_id, qty
ReleaseDelete(r) ==
  /\ req[r].pc = "rel_delete"
  /\ reservations' = reservations \ RowsOf(req[r].reservationId)
  /\ IF RowsOf(req[r].reservationId) = {}
     THEN req' = [req EXCEPT ![r] = AfterInventory(req[r], 404)]
     ELSE LET row == CHOOSE x \in RowsOf(req[r].reservationId) : TRUE IN
          req' = [req EXCEPT ![r].pc = "rel_update",
                             ![r].productId = row.product_id,
                             ![r].qty = row.qty]
  /\ UNCHANGED <<stock, stock0, orders, payments, shipments, stages,
                 notifications, now>>

\* update stock set qty=qty+$1
ReleaseUpdate(r) ==
  /\ req[r].pc = "rel_update"
  /\ stock' = [stock EXCEPT ![req[r].productId] = @ + req[r].qty]
  /\ req' = [req EXCEPT ![r] =
       AfterInventory([req[r] EXCEPT !.net = @ + req[r].qty], 200)]
  /\ UNCHANGED <<stock0, reservations, orders, payments, shipments, stages,
                 notifications, now>>

\* The steps of the inventory handlers, whoever called them.
InventoryStep ==
  \E r \in Reqs :
    \/ ReserveEnsure(r)
    \/ ReserveSelect(r)
    \/ ReserveUpdate(r)
    \/ ReserveInsert(r)
    \/ Commit(r)
    \/ ReleaseDelete(r)
    \/ ReleaseUpdate(r)

\* Direct calls of the inventory service (it is reachable through the gateway).
InventoryCall ==
  \E r \in Reqs :
    \/ \E reservationId \in ClientRIds, productId \in Products \cup {UnknownProduct},
          qty \in 0..MaxQty : ReserveCall(r, reservationId, productId, qty)
    \/ \E reservationId \in ClientRIds : CommitCall(r, reservationId)
    \/ \E reservationId \in ClientRIds : ReleaseCall(r, reservationId)

(* -------------------------- Payment Processor -------------------------- *)

DigitChars == <<"0", "1", "2", "3", "4", "5", "6", "7", "8", "9">>

IsDigit(c) == \E i \in 1..10 : DigitChars[i] = c

DigitVal(c) == (CHOOSE i \in 1..10 : DigitChars[i] = c) - 1

\* String(n) for 0 <= n < 100, as a sequence of characters.
Digits(n) ==
  IF n < 10 THEN <<DigitChars[n + 1]>>
  ELSE <<DigitChars[(n \div 10) + 1], DigitChars[(n % 10) + 1]>>

\* `p-${orderId}-${attempt}`
PaymentIdOf(orderId, attempt) ==
  <<"p", "-">> \o Digits(orderId) \o <<"-">> \o Digits(attempt)

\* ChargeOk of a handler that takes the first digit of the paymentId.
ChargeOkFirstDigit(paymentId) ==
  LET digits == SelectSeq(paymentId, IsDigit)
      first == IF Len(digits) = 0 THEN "0" ELSE digits[1]
  IN DigitVal(first) % 2 = 0

\* ChargeOk of a handler that captures the odd paymentIds.
ChargeOkOdd(paymentId) ==
  LET digits == SelectSeq(paymentId, IsDigit)
      last == IF Len(digits) = 0 THEN "0" ELSE digits[Len(digits)]
  IN DigitVal(last) % 2 = 1

\* Number(paymentId.replace(/\D/g, '').slice(-1) || '0') % 2 === 0
ChargeOk(paymentId) ==
  LET digits == SelectSeq(paymentId, IsDigit)
      last == IF Len(digits) = 0 THEN "0" ELSE digits[Len(digits)]
  IN DigitVal(last) % 2 = 0

\* POST /payments/charge: 400 for a body that fails chargeSchema (amount must
\* be positive), else the payment row is inserted and the parity decides.
ChargeCode(paymentId, amount) ==
  IF amount <= 0 THEN 400
  ELSE IF ChargeOk(paymentId) THEN 200 ELSE 402

ChargeRows(paymentId, amount, orderId, r) ==
  IF amount <= 0 THEN {}
  ELSE {[payment_id |-> paymentId, amount |-> amount, currency |-> "USD",
         status |-> IF ChargeOk(paymentId) THEN "captured" ELSE "failed",
         order_id |-> orderId, by |-> r]}

\* The orderId of a charge body that has none.
NoOrder == 0
\* The amount of a refund body that has none.
NoAmount == -1

\* paymentIds, amounts and currencies of the bodies sent by direct callers of
\* the payments service: the saga's ids of order 1, an id with no digit, ids
\* whose last character is not a digit.
ClientPIds ==
  {PaymentIdOf(1, 1), PaymentIdOf(1, 2), <<"x">>, <<"4", "a">>, <<"3", "b">>, NoId}
ClientAmounts == {0, 50, 2000}
ClientCurrencies == {"", "USD"}

\* POST /payments/charge called directly: chargeSchema, the parity, the insert
\* (order_id is not null and references orders: a failing insert is swallowed
\* by the catch), the response.
Charge(r, paymentId, amount, currency, orderId) ==
  /\ CanStart(r)
  /\ LET base == [Idle EXCEPT !.kind = "charge", !.pc = "done",
                              !.paymentId = paymentId, !.amount = amount,
                              !.currency = currency, !.order = orderId]
         valid == Len(paymentId) >= 1 /\ amount > 0 /\ Len(currency) >= 1
         status == IF ChargeOk(paymentId) THEN "captured" ELSE "failed"
     IN IF ~valid
        THEN /\ req' = [req EXCEPT ![r] = [base EXCEPT !.code = 400]]
             /\ UNCHANGED payments
        ELSE /\ req' = [req EXCEPT ![r] =
                  [base EXCEPT !.code = IF ChargeOk(paymentId) THEN 200 ELSE 402,
                               !.pstatus = status]]
             /\ payments' = IF orderId \in 1..Len(orders)
                            THEN payments \cup
                                 {[payment_id |-> paymentId, amount |-> amount,
                                   currency |-> currency, status |-> status,
                                   order_id |-> orderId, by |-> r]}
                            ELSE payments
  /\ UNCHANGED <<stock, stock0, reservations, orders, shipments, stages,
                 notifications, now>>

PaymentsOf(paymentId) == {row \in payments : row.payment_id = paymentId}

\* RefundSelect of a handler that does not look at the status it read.
RefundSelectNoCheck(r, paymentId, amount) ==
  /\ CanStart(r)
  /\ LET base == [Idle EXCEPT !.kind = "refund", !.paymentId = paymentId,
                              !.amount = amount] IN
     IF Len(paymentId) < 1 \/ (amount # NoAmount /\ amount <= 0)
     THEN req' = [req EXCEPT ![r] = [base EXCEPT !.pc = "done", !.code = 400]]
     ELSE IF PaymentsOf(paymentId) = {}
     THEN req' = [req EXCEPT ![r] = [base EXCEPT !.pc = "done", !.code = 404]]
     ELSE \E payment \in PaymentsOf(paymentId) :
            req' = [req EXCEPT ![r] =
              [base EXCEPT !.pstatus = payment.status, !.pc = "ref_update"]]
  /\ UNCHANGED <<stock, stock0, reservations, orders, payments, shipments,
                 stages, notifications, now>>

\* POST /payments/refund: refundSchema, the select of the payment (rows[0] of
\* a select with no order by is any of the rows of that payment_id), 404 if
\* there is none, 409 if its status is not captured.
RefundSelect(r, paymentId, amount) ==
  /\ CanStart(r)
  /\ LET base == [Idle EXCEPT !.kind = "refund", !.paymentId = paymentId,
                              !.amount = amount] IN
     IF Len(paymentId) < 1 \/ (amount # NoAmount /\ amount <= 0)
     THEN req' = [req EXCEPT ![r] = [base EXCEPT !.pc = "done", !.code = 400]]
     ELSE IF PaymentsOf(paymentId) = {}
     THEN req' = [req EXCEPT ![r] = [base EXCEPT !.pc = "done", !.code = 404]]
     ELSE \E payment \in PaymentsOf(paymentId) :
            req' = [req EXCEPT ![r] =
              IF payment.status # "captured"
              THEN [base EXCEPT !.pstatus = payment.status,
                                !.pc = "done", !.code = 409]
              ELSE [base EXCEPT !.pstatus = payment.status, !.pc = "ref_update"]]
  /\ UNCHANGED <<stock, stock0, reservations, orders, payments, shipments,
                 stages, notifications, now>>

\* RefundUpdate of an update statement without its where clause.
RefundUpdateNoWhere(r) ==
  /\ req[r].pc = "ref_update"
  /\ payments' = {[row EXCEPT !.status = "refunded"] : row \in payments}
  /\ req' = [req EXCEPT ![r].pc = "done", ![r].code = 200]
  /\ UNCHANGED <<stock, stock0, reservations, orders, shipments, stages,
                 notifications, now>>

\* update payments set status='refunded' where payment_id=$2, then 200.
RefundUpdate(r) ==
  /\ req[r].pc = "ref_update"
  /\ payments' = {IF row.payment_id = req[r].paymentId
                  THEN [row EXCEPT !.status = "refunded"] ELSE row :
                  row \in payments}
  /\ req' = [req EXCEPT ![r].pc = "done", ![r].code = 200]
  /\ UNCHANGED <<stock, stock0, reservations, orders, shipments, stages,
                 notifications, now>>

(* ----------------------------- Order Ledger ---------------------------- *)

OrderIds == 1..Len(orders)

\* SetOrderStatus of an update statement without its where clause.
SetOrderStatusNoWhere(orderId, status, trackingId) ==
  [i \in DOMAIN orders |->
     IF trackingId = NoId THEN [orders[i] EXCEPT !.status = status]
     ELSE [orders[i] EXCEPT !.status = status, !.trackingId = trackingId]]

\* setOrderStatus(orderId, status, trackingId?)
SetOrderStatus(orderId, status, trackingId) ==
  IF trackingId = NoId
  THEN [orders EXCEPT ![orderId].status = status]
  ELSE [orders EXCEPT ![orderId].status = status, ![orderId].trackingId = trackingId]

\* Payable of a handler that lets only a created_unpaid order be paid.
PayableUnpaidOnly(status) == status = "created_unpaid"

\* allow retry if failed or created
Payable(status) == status \in {"failed", "created_unpaid"}

\* CreateOrder of a handler that takes the stock of the order at once.
CreateOrderReserving(productId, qty) ==
  /\ Len(orders) < MaxOrders
  /\ orders' = Append(orders, [productId |-> productId, qty |-> qty,
                               status |-> "created_unpaid", trackingId |-> NoId])
  /\ stock' = IF stock[productId] >= qty
              THEN [stock EXCEPT ![productId] = @ - qty] ELSE stock
  /\ UNCHANGED <<stock0, reservations, payments, shipments, stages,
                 notifications, now, req>>

\* POST /orders: the order is inserted unpaid, nothing else happens.
CreateOrder(productId, qty) ==
  /\ Len(orders) < MaxOrders
  /\ orders' = Append(orders, [productId |-> productId, qty |-> qty,
                               status |-> "created_unpaid", trackingId |-> NoId])
  /\ UNCHANGED <<stock, stock0, reservations, payments, shipments, stages,
                 notifications, now, req>>

\* PayCall without the precondition on the status of the order.
PayCallNoPrecondition(r, id, auth) ==
  /\ CanStart(r)
  /\ LET base == [Idle EXCEPT !.kind = "pay", !.auth = auth, !.order = id] IN
     IF ~auth
     THEN /\ req' = [req EXCEPT ![r] = [base EXCEPT !.pc = "done", !.code = 401]]
          /\ UNCHANGED now
     ELSE IF id \notin OrderIds
     THEN /\ req' = [req EXCEPT ![r] = [base EXCEPT !.pc = "done", !.code = 404]]
          /\ UNCHANGED now
     ELSE /\ now' \in {now, now + 1}
          /\ req' = [req EXCEPT ![r] =
               [base EXCEPT !.pc = "rsv_ensure",
                            !.ostatus = orders[id].status,
                            !.otracking = orders[id].trackingId,
                            !.reservationId = <<"r", id, now'>>,
                            !.productId = orders[id].productId,
                            !.qty = orders[id].qty]]
  /\ UNCHANGED <<stock, stock0, reservations, orders, payments, shipments,
                 stages, notifications>>

\* POST /orders/:id/pay up to the reserve call of processOrder: the token,
\* the select of the order, the precondition, then the reservation id from
\* Date.now() and the body of the reserve request.
PayCall(r, id, auth) ==
  /\ CanStart(r)
  /\ LET base == [Idle EXCEPT !.kind = "pay", !.auth = auth, !.order = id] IN
     IF ~auth
     THEN /\ req' = [req EXCEPT ![r] = [base EXCEPT !.pc = "done", !.code = 401]]
          /\ UNCHANGED now
     ELSE IF id \notin OrderIds
     THEN /\ req' = [req EXCEPT ![r] = [base EXCEPT !.pc = "done", !.code = 404]]
          /\ UNCHANGED now
     ELSE IF ~Payable(orders[id].status)
     THEN /\ req' = [req EXCEPT ![r] =
               [base EXCEPT !.pc = "done", !.code = 409,
                            !.ostatus = orders[id].status]]
          /\ UNCHANGED now
     ELSE /\ now' \in {now, now + 1}
          /\ req' = [req EXCEPT ![r] =
               [base EXCEPT !.pc = "rsv_ensure",
                            !.ostatus = orders[id].status,
                            !.otracking = orders[id].trackingId,
                            !.reservationId = <<"r", id, now'>>,
                            !.productId = orders[id].productId,
                            !.qty = orders[id].qty]]
  /\ UNCHANGED <<stock, stock0, reservations, orders, payments, shipments,
                 stages, notifications>>

\* The order in the 200 response of pay: return { ok: true, order: o }, o
\* being the row that the handler selected before it called processOrder.
PayResponseOrder(rq) == [status |-> rq.ostatus, trackingId |-> rq.otracking]

\* processOrder, reserve answered !r.ok: notify order_failed (reason stock).
PayNotifyStock(r) ==
  /\ req[r].pc = "p_reserved"
  /\ req[r].code # 200
  /\ notifications' = notifications \cup
       {[type |-> "order_failed", id |-> req[r].order, reason |-> "stock", by |-> r]}
  /\ req' = [req EXCEPT ![r].pc = "p_set_failed_stock",
                        ![r].calls = Append(@, Call("notify", "order_failed", 200))]
  /\ UNCHANGED <<stock, stock0, reservations, orders, payments, shipments,
                 stages, now>>

\* PaySetFailedStock of a processOrder that returns 409 without the update.
PaySetFailedStockNoUpdate(r) ==
  /\ req[r].pc = "p_set_failed_stock"
  /\ req' = [req EXCEPT ![r].pc = "done", ![r].code = 409]
  /\ UNCHANGED <<stock, stock0, reservations, orders, payments, shipments,
                 stages, notifications, now>>

\* ... then setOrderStatus(failed) and 409.
PaySetFailedStock(r) ==
  /\ req[r].pc = "p_set_failed_stock"
  /\ orders' = SetOrderStatus(req[r].order, "failed", NoId)
  /\ req' = [req EXCEPT ![r].pc = "done", ![r].code = 409,
                        ![r].calls = Append(@, Call("setOrderStatus", "failed", 0))]
  /\ UNCHANGED <<stock, stock0, reservations, payments, shipments, stages,
                 notifications, now>>

\* PayCharge of a processPayment that takes every response for a success.
PayChargeNoCaptureCheck(r) ==
  /\ req[r].pc \in {"p_reserved", "p_charge"}
  /\ req[r].pc = "p_reserved" => req[r].code = 200
  /\ LET attempt == req[r].attempt + 1
         totalAmount == Price(req[r].productId) * req[r].qty
         paymentId == PaymentIdOf(req[r].order, attempt)
         code == ChargeCode(paymentId, totalAmount)
     IN /\ payments' = payments \cup
             ChargeRows(paymentId, totalAmount, req[r].order, r)
        /\ req' = [req EXCEPT ![r].attempt = attempt,
                              ![r].amount = totalAmount,
                              ![r].code = code,
                              ![r].calls = Append(@, Call("charge", paymentId, code)),
                              ![r].pc = "commit"]
  /\ UNCHANGED <<stock, stock0, reservations, orders, shipments, stages,
                 notifications, now>>

\* PayCharge of a processPayment whose loop runs up to attempt 4.
PayChargeFourAttempts(r) ==
  /\ req[r].pc \in {"p_reserved", "p_charge"}
  /\ req[r].pc = "p_reserved" => req[r].code = 200
  /\ LET attempt == req[r].attempt + 1
         totalAmount == Price(req[r].productId) * req[r].qty
         paymentId == PaymentIdOf(req[r].order, attempt)
         code == ChargeCode(paymentId, totalAmount)
     IN /\ payments' = payments \cup
             ChargeRows(paymentId, totalAmount, req[r].order, r)
        /\ req' = [req EXCEPT ![r].attempt = attempt,
                              ![r].amount = totalAmount,
                              ![r].code = code,
                              ![r].calls = Append(@, Call("charge", paymentId, code)),
                              ![r].pc = IF code = 200 THEN "commit"
                                        ELSE IF attempt < 4 THEN "p_charge"
                                        ELSE "p_notify_payment"]
  /\ UNCHANGED <<stock, stock0, reservations, orders, shipments, stages,
                 notifications, now>>

\* processPayment: one iteration of the loop (the price is read before the
\* first).  The charge handler runs as part of the step.
PayCharge(r) ==
  /\ req[r].pc \in {"p_reserved", "p_charge"}
  /\ req[r].pc = "p_reserved" => req[r].code = 200
  /\ LET attempt == req[r].attempt + 1
         totalAmount == Price(req[r].productId) * req[r].qty
         paymentId == PaymentIdOf(req[r].order, attempt)
         code == ChargeCode(paymentId, totalAmount)
     IN /\ payments' = payments \cup
             ChargeRows(paymentId, totalAmount, req[r].order, r)
        /\ req' = [req EXCEPT ![r].attempt = attempt,
                              ![r].amount = totalAmount,
                              ![r].code = code,
                              ![r].calls = Append(@, Call("charge", paymentId, code)),
                              ![r].pc = IF code = 200 THEN "commit"
                                        ELSE IF attempt < 3 THEN "p_charge"
                                        ELSE "p_notify_payment"]
  /\ UNCHANGED <<stock, stock0, reservations, orders, shipments, stages,
                 notifications, now>>

\* PayNotifyPayment of a processOrder that forgets the compensating release.
PayNotifyPaymentNoRelease(r) ==
  /\ req[r].pc = "p_notify_payment"
  /\ notifications' = notifications \cup
       {[type |-> "payment_failed", id |-> req[r].order, reason |-> "", by |-> r]}
  /\ req' = [req EXCEPT ![r].pc = "p_set_failed",
                        ![r].calls = Append(@, Call("notify", "payment_failed", 200))]
  /\ UNCHANGED <<stock, stock0, reservations, orders, payments, shipments,
                 stages, now>>

\* processPayment, !paid: notify payment_failed; processOrder then calls release.
PayNotifyPayment(r) ==
  /\ req[r].pc = "p_notify_payment"
  /\ notifications' = notifications \cup
       {[type |-> "payment_failed", id |-> req[r].order, reason |-> "", by |-> r]}
  /\ req' = [req EXCEPT ![r].pc = "rel_delete",
                        ![r].calls = Append(@, Call("notify", "payment_failed", 200))]
  /\ UNCHANGED <<stock, stock0, reservations, orders, payments, shipments,
                 stages, now>>

\* ... after the release call: setOrderStatus(failed) and 402.
PaySetFailed(r) ==
  /\ req[r].pc = "p_set_failed"
  /\ orders' = SetOrderStatus(req[r].order, "failed", NoId)
  /\ req' = [req EXCEPT ![r].pc = "done", ![r].code = 402,
                        ![r].calls = Append(@, Call("setOrderStatus", "failed", 0))]
  /\ UNCHANGED <<stock, stock0, reservations, payments, shipments, stages,
                 notifications, now>>

\* POST /shipping/fulfill called directly: fulfillSchema.
FulfillCall(r, orderId) ==
  /\ CanStart(r)
  /\ req' = [req EXCEPT ![r] =
       [Idle EXCEPT !.kind = "fulfill", !.pc = "p_fulfill", !.order = orderId]]
  /\ UNCHANGED <<stock, stock0, reservations, orders, payments, shipments,
                 stages, notifications, now>>

\* Where a request continues when fulfill has answered { trackingId }.
AfterFulfill(rq) ==
  IF rq.kind = "pay"
  THEN [rq EXCEPT !.pc = "p_set_paid",
                  !.calls = Append(@, Call("fulfill", "", 200))]
  ELSE [rq EXCEPT !.pc = "done", !.code = 200]

\* POST /shipping/fulfill, first insert: the shipment.  tracking_id is unique
\* and order_id references orders; a failing insert is swallowed by the
\* catch, which also skips the stage.
FulfillShipment(r) ==
  /\ req[r].pc = "p_fulfill"
  /\ now' \in {now, now + 1}
  /\ LET trackingId == <<"TRK", req[r].order, now'>> IN
     IF \/ \E s \in shipments : s.tracking_id = trackingId
        \/ req[r].order \notin OrderIds
     THEN /\ req' = [req EXCEPT ![r] =
               AfterFulfill([req[r] EXCEPT !.trackingId = trackingId])]
          /\ UNCHANGED shipments
     ELSE /\ req' = [req EXCEPT ![r].trackingId = trackingId, ![r].pc = "ful_stage"]
          /\ shipments' = shipments \cup
               {[order_id |-> req[r].order, tracking_id |-> trackingId,
                 status |-> "processing", by |-> r]}
  /\ UNCHANGED <<stock, stock0, reservations, orders, payments, stages,
                 notifications>>

\* POST /shipping/fulfill, second insert: the stage 'processing'.
FulfillStage(r) ==
  /\ req[r].pc = "ful_stage"
  /\ stages' = IF req[r].trackingId \in DOMAIN stages
               THEN [stages EXCEPT ![req[r].trackingId] = Append(@, "processing")]
               ELSE stages @@ (req[r].trackingId :> <<"processing">>)
  /\ req' = [req EXCEPT ![r] = AfterFulfill(req[r])]
  /\ UNCHANGED <<stock, stock0, reservations, orders, payments, shipments,
                 notifications, now>>

\* setOrderStatus(order.id, 'created_paid', ship.trackingId)
PaySetPaid(r) ==
  /\ req[r].pc = "p_set_paid"
  /\ orders' = SetOrderStatus(req[r].order, "created_paid", req[r].trackingId)
  /\ req' = [req EXCEPT ![r].pc = "p_notify_confirmed",
                        ![r].calls = Append(@, Call("setOrderStatus", "created_paid", 0))]
  /\ UNCHANGED <<stock, stock0, reservations, payments, shipments, stages,
                 notifications, now>>

\* notify order_confirmed, then 200.
PayNotifyConfirmed(r) ==
  /\ req[r].pc = "p_notify_confirmed"
  /\ notifications' = notifications \cup
       {[type |-> "order_confirmed", id |-> req[r].order, reason |-> "", by |-> r]}
  /\ req' = [req EXCEPT ![r].pc = "done", ![r].code = 200,
                        ![r].calls = Append(@, Call("notify", "order_confirmed", 200))]
  /\ UNCHANGED <<stock, stock0, reservations, orders, payments, shipments,
                 stages, now>>

\* The steps of processOrder and processPayment between the leaf calls.
PayStep ==
  \E r \in Reqs :
    \/ PayNotifyStock(r)
    \/ PaySetFailedStock(r)
    \/ PayCharge(r)
    \/ PayNotifyPayment(r)
    \/ PaySetFailed(r)
    \/ FulfillShipment(r)
    \/ FulfillStage(r)
    \/ PaySetPaid(r)
    \/ PayNotifyConfirmed(r)

(* --------------------------- Shipment Tracker -------------------------- *)

\* The fixed sequence of the stages of a shipment.
Stages == <<"processing", "collected", "in_transit", "delivered_to_pickup">>

\* let next = ...: the stage after status, "" (null) if there is none.
NextStage(status) ==
  IF status = "processing" THEN "collected"
  ELSE IF status = "collected" THEN "in_transit"
  ELSE IF status = "in_transit" THEN "delivered_to_pickup"
  ELSE ""

\* type: `shipment_${next}`
ShipmentType(next) ==
  IF next = "collected" THEN "shipment_collected"
  ELSE IF next = "in_transit" THEN "shipment_in_transit"
  ELSE "shipment_delivered_to_pickup"

ShipmentsOf(trackingId) == {s \in shipments : s.tracking_id = trackingId}

\* A trackingId of no shipment.
UnknownTrackingId == <<"TRK", 9, 9>>

\* AdvanceCall of a handler that goes on when there is no next stage.
AdvanceCallNoTerminal(r, trackingId) ==
  /\ CanStart(r)
  /\ LET base == [Idle EXCEPT !.kind = "advance", !.trackingId = trackingId] IN
     IF Len(trackingId) < 1
     THEN req' = [req EXCEPT ![r] = [base EXCEPT !.pc = "done", !.code = 400]]
     ELSE IF ShipmentsOf(trackingId) = {}
     THEN req' = [req EXCEPT ![r] = [base EXCEPT !.pc = "done", !.code = 404]]
     ELSE LET row == CHOOSE s \in ShipmentsOf(trackingId) : TRUE
              next == IF NextStage(row.status) = "" THEN row.status
                      ELSE NextStage(row.status)
          IN req' = [req EXCEPT ![r] =
               [base EXCEPT !.order = row.order_id, !.sstatus = row.status,
                            !.next = next, !.pc = "adv_update"]]
  /\ UNCHANGED <<stock, stock0, reservations, orders, payments, shipments,
                 stages, notifications, now>>

\* POST /shipping/advance: advanceSchema, the select of the shipment, 404 if
\* there is none, the next stage, { status, done: true } if there is none.
AdvanceCall(r, trackingId) ==
  /\ CanStart(r)
  /\ LET base == [Idle EXCEPT !.kind = "advance", !.trackingId = trackingId] IN
     IF Len(trackingId) < 1
     THEN req' = [req EXCEPT ![r] = [base EXCEPT !.pc = "done", !.code = 400]]
     ELSE IF ShipmentsOf(trackingId) = {}
     THEN req' = [req EXCEPT ![r] = [base EXCEPT !.pc = "done", !.code = 404]]
     ELSE LET row == CHOOSE s \in ShipmentsOf(trackingId) : TRUE
              next == NextStage(row.status)
          IN req' = [req EXCEPT ![r] =
               IF next = ""
               THEN [base EXCEPT !.order = row.order_id, !.sstatus = row.status,
                                 !.rstatus = row.status, !.done = TRUE,
                                 !.pc = "done", !.code = 200]
               ELSE [base EXCEPT !.order = row.order_id, !.sstatus = row.status,
                                 !.next = next, !.pc = "adv_update"]]
  /\ UNCHANGED <<stock, stock0, reservations, orders, payments, shipments,
                 stages, notifications, now>>

\* update shipments set status=$1 where tracking_id=$2
AdvanceUpdate(r) ==
  /\ req[r].pc = "adv_update"
  /\ shipments' = {IF s.tracking_id = req[r].trackingId
                   THEN [s EXCEPT !.status = req[r].next] ELSE s : s \in shipments}
  /\ req' = [req EXCEPT ![r].pc = "adv_stage"]
  /\ UNCHANGED <<stock, stock0, reservations, orders, payments, stages,
                 notifications, now>>

\* insert into shipment_stages(tracking_id, name)
AdvanceStage(r) ==
  /\ req[r].pc = "adv_stage"
  /\ stages' = IF req[r].trackingId \in DOMAIN stages
               THEN [stages EXCEPT ![req[r].trackingId] = Append(@, req[r].next)]
               ELSE stages @@ (req[r].trackingId :> <<req[r].next>>)
  /\ req' = [req EXCEPT ![r].pc = "adv_notify"]
  /\ UNCHANGED <<stock, stock0, reservations, orders, payments, shipments,
                 notifications, now>>

\* fetch notifications /notify { type: shipment_<next> }
AdvanceNotify(r) ==
  /\ req[r].pc = "adv_notify"
  /\ notifications' = notifications \cup
       {[type |-> ShipmentType(req[r].next), id |-> req[r].order,
         reason |-> "", by |-> r]}
  /\ req' = [req EXCEPT ![r].pc = "adv_push",
                        ![r].calls = Append(@, Call("notify", ShipmentType(req[r].next), 200))]
  /\ UNCHANGED <<stock, stock0, reservations, orders, payments, shipments,
                 stages, now>>

\* fetch orders /orders/:id/status { status: next }: the handler of the Order
\* Ledger selects the order (404 if none; orders are never deleted) and calls
\* setOrderStatus; then advance returns { status: next, done }.
AdvancePush(r) ==
  /\ req[r].pc = "adv_push"
  /\ orders' = IF req[r].order \in OrderIds
               THEN SetOrderStatus(req[r].order, req[r].next, NoId)
               ELSE orders
  /\ req' = [req EXCEPT ![r].pc = "done", ![r].code = 200,
                        ![r].rstatus = req[r].next,
                        ![r].done = (req[r].next = "delivered_to_pickup"),
                        ![r].calls = Append(@, Call("status", req[r].next,
                             IF req[r].order \in OrderIds THEN 200 ELSE 404))]
  /\ UNCHANGED <<stock, stock0, reservations, payments, shipments, stages,
                 notifications, now>>

\* The notify fetch of advance rejects or is answered with an error: the
\* fetch is in a try block with an empty catch, advance goes on to the push.
AdvanceNotifyFails(r) ==
  /\ req[r].pc = "adv_notify"
  /\ req' = [req EXCEPT ![r].pc = "adv_push",
                        ![r].calls = Append(@, Call("notify", ShipmentType(req[r].next), 0))]
  /\ UNCHANGED <<stock, stock0, reservations, orders, payments, shipments,
                 stages, notifications, now>>

\* AdvancePushFails of a handler whose push is not in a try block.
AdvancePushFailsThrows(r) ==
  /\ req[r].pc = "adv_push"
  /\ req' = [req EXCEPT ![r].pc = "done", ![r].code = 500,
                        ![r].calls = Append(@, Call("status", req[r].next, 0))]
  /\ UNCHANGED <<stock, stock0, reservations, orders, payments, shipments,
                 stages, notifications, now>>

\* The push fetch of advance rejects (the Order Ledger is unreachable): the
\* fetch is in a try block with an empty catch, the order is not updated and
\* advance returns { status: next, done }.
AdvancePushFails(r) ==
  /\ req[r].pc = "adv_push"
  /\ req' = [req EXCEPT ![r].pc = "done", ![r].code = 200,
                        ![r].rstatus = req[r].next,
                        ![r].done = (req[r].next = "delivered_to_pickup"),
                        ![r].calls = Append(@, Call("status", req[r].next, 0))]
  /\ UNCHANGED <<stock, stock0, reservations, orders, payments, shipments,
                 stages, notifications, now>>

AdvanceStep ==
  \E r \in Reqs :
    \/ AdvanceUpdate(r)
    \/ AdvanceStage(r)
    \/ AdvanceNotify(r)
    \/ AdvancePush(r)

(* ------------------------ Order Ledger: received ----------------------- *)

\* ReceivedCall of a handler that does not look at the status of the order.
ReceivedCallNoCheck(r, id, auth, owner) ==
  /\ CanStart(r)
  /\ LET base == [Idle EXCEPT !.kind = "received", !.auth = auth, !.order = id] IN
     req' = [req EXCEPT ![r] =
       IF ~auth THEN [base EXCEPT !.pc = "done", !.code = 401]
       ELSE IF id \notin OrderIds THEN [base EXCEPT !.pc = "done", !.code = 404]
       ELSE IF ~owner THEN [base EXCEPT !.pc = "done", !.code = 403]
       ELSE [base EXCEPT !.ostatus = orders[id].status, !.pc = "rcv_update"]]
  /\ UNCHANGED <<stock, stock0, reservations, orders, payments, shipments,
                 stages, notifications, now>>

\* POST /orders/:id/received: the token, the select of the order, the owner,
\* the status that was read.
ReceivedCall(r, id, auth, owner) ==
  /\ CanStart(r)
  /\ LET base == [Idle EXCEPT !.kind = "received", !.auth = auth, !.order = id] IN
     req' = [req EXCEPT ![r] =
       IF ~auth THEN [base EXCEPT !.pc = "done", !.code = 401]
       ELSE IF id \notin OrderIds THEN [base EXCEPT !.pc = "done", !.code = 404]
       ELSE IF ~owner THEN [base EXCEPT !.pc = "done", !.code = 403]
       ELSE IF orders[id].status # "delivered_to_pickup"
       THEN [base EXCEPT !.ostatus = orders[id].status, !.pc = "done", !.code = 409]
       ELSE [base EXCEPT !.ostatus = orders[id].status, !.pc = "rcv_update"]]
  /\ UNCHANGED <<stock, stock0, reservations, orders, payments, shipments,
                 stages, notifications, now>>

\* setOrderStatus(String(o.id), 'received'), then { ok: true }.
ReceivedUpdate(r) ==
  /\ req[r].pc = "rcv_update"
  /\ orders' = SetOrderStatus(req[r].order, "received", NoId)
  /\ req' = [req EXCEPT ![r].pc = "done", ![r].code = 200]
  /\ UNCHANGED <<stock, stock0, reservations, payments, shipments, stages,
                 notifications, now>>

(* ------------------ Order Ledger: cancel, status push ------------------- *)

\* The statuses a client may put into the body of POST /orders/:id/status.
ClientStatuses ==
  {"processing", "collected", "in_transit", "delivered_to_pickup",
   "created_unpaid", "created_paid", "failed", "received", ""}

\* CancelCall of a handler that does not look at the status of the order.
CancelCallNoCheck(r, id, auth) ==
  /\ CanStart(r)
  /\ LET base == [Idle EXCEPT !.kind = "cancel", !.auth = auth, !.order = id] IN
     req' = [req EXCEPT ![r] =
       IF ~auth THEN [base EXCEPT !.pc = "done", !.code = 401]
       ELSE IF id \notin OrderIds THEN [base EXCEPT !.pc = "done", !.code = 404]
       ELSE [base EXCEPT !.ostatus = orders[id].status, !.pc = "cn_update"]]
  /\ UNCHANGED <<stock, stock0, reservations, orders, payments, shipments,
                 stages, notifications, now>>

\* POST /orders/:id/cancel: the token, the select of the order, 404 if there
\* is none, 409 unless the status that was read is created_unpaid.
CancelCall(r, id, auth) ==
  /\ CanStart(r)
  /\ LET base == [Idle EXCEPT !.kind = "cancel", !.auth = auth, !.order = id] IN
     req' = [req EXCEPT ![r] =
       IF ~auth THEN [base EXCEPT !.pc = "done", !.code = 401]
       ELSE IF id \notin OrderIds THEN [base EXCEPT !.pc = "done", !.code = 404]
       ELSE IF orders[id].status # "created_unpaid"
       THEN [base EXCEPT !.ostatus = orders[id].status, !.pc = "done", !.code = 409]
       ELSE [base EXCEPT !.ostatus = orders[id].status, !.pc = "cn_update"]]
  /\ UNCHANGED <<stock, stock0, reservations, orders, payments, shipments,
                 stages, notifications, now>>

\* setOrderStatus(String(o.id), 'failed')
CancelUpdate(r) ==
  /\ req[r].pc = "cn_update"
  /\ orders' = SetOrderStatus(req[r].order, "failed", NoId)
  /\ req' = [req EXCEPT ![r].pc = "cn_notify",
                        ![r].calls = Append(@, Call("setOrderStatus", "failed", 0))]
  /\ UNCHANGED <<stock, stock0, reservations, payments, shipments, stages,
                 notifications, now>>

\* fetch notifications /notify { type: order_cancelled }, then
\* { cancelled: true }.
CancelNotify(r) ==
  /\ req[r].pc = "cn_notify"
  /\ notifications' = notifications \cup
       {[type |-> "order_cancelled", id |-> req[r].order, reason |-> "", by |-> r]}
  /\ req' = [req EXCEPT ![r].pc = "done", ![r].code = 200,
                        ![r].calls = Append(@, Call("notify", "order_cancelled", 200))]
  /\ UNCHANGED <<stock, stock0, reservations, orders, payments, shipments,
                 stages, now>>

\* StatusCall of a handler whose schema accepts any status.
StatusCallAnyStatus(r, id, status) ==
  /\ CanStart(r)
  /\ LET base == [Idle EXCEPT !.kind = "status", !.order = id, !.next = status] IN
     req' = [req EXCEPT ![r] =
       IF id \notin OrderIds THEN [base EXCEPT !.pc = "done", !.code = 404]
       ELSE [base EXCEPT !.pc = "st_update"]]
  /\ UNCHANGED <<stock, stock0, reservations, orders, payments, shipments,
                 stages, notifications, now>>

\* POST /orders/:id/status called by a client: statusSchema (400), the select
\* of the order (404).  There is no token.
StatusCall(r, id, status) ==
  /\ CanStart(r)
  /\ LET base == [Idle EXCEPT !.kind = "status", !.order = id, !.next = status] IN
     req' = [req EXCEPT ![r] =
       IF \A i \in DOMAIN Stages : Stages[i] # status
       THEN [base EXCEPT !.pc = "done", !.code = 400]
       ELSE IF id \notin OrderIds THEN [base EXCEPT !.pc = "done", !.code = 404]
       ELSE [base EXCEPT !.pc = "st_update"]]
  /\ UNCHANGED <<stock, stock0, reservations, orders, payments, shipments,
                 stages, notifications, now>>

\* setOrderStatus(id, parsed.data.status), then { ok: true }.
StatusUpdate(r) ==
  /\ req[r].pc = "st_update"
  /\ orders' = SetOrderStatus(req[r].order, req[r].next, NoId)
  /\ req' = [req EXCEPT ![r].pc = "done", ![r].code = 200]
  /\ UNCHANGED <<stock, stock0, reservations, payments, shipments, stages,
                 notifications, now>>

(* ------------------------------- Init ---------------------------------- *)

\* The database after the schema and the seed: product 1 has a stock row;
\* product 2 has one only if /inventory/set or a reserve created it.
Init ==
  /\ stock \in {s \in [Products -> {NoRow} \cup 0..MaxStock] :
                  s[1] \in 1..MaxStock /\ s[2] \in {NoRow, MaxStock}}
  /\ stock0 = stock
  /\ reservations = {}
  /\ orders = <<>>
  /\ payments = {}
  /\ shipments = {}
  /\ stages = <<>>
  /\ notifications = {}
  /\ now = 0
  /\ req = [r \in Reqs |-> Idle]

(* ------------------- the inventory service on its own ------------------ *)

InvNext == InventoryCall \/ InventoryStep

SpecInv == Init /\ [][InvNext]_vars

\* Calls issued one after the other: a call starts when none is in flight.
InvSeqNext == (Quiescent /\ InventoryCall) \/ InventoryStep

SpecInvSeq == Init /\ [][InvSeqNext]_vars

(* ------------- the inventory service with a reservation held ----------- *)

\* The reservation id of the reservation that is held initially.
HeldRId == <<"a">>

\* The database after one successful reserve of HeldRId: the row is in
\* reservations and its qty has been taken from the stock of its product.
InitHeld ==
  /\ \E s0 \in {s \in [Products -> {NoRow} \cup 0..MaxStock] :
                  s[1] \in 1..MaxStock /\ s[2] \in {NoRow, MaxStock}},
        productId \in Products, qty \in 1..MaxQty :
       /\ s0[productId] # NoRow
       /\ s0[productId] >= qty
       /\ stock = [s0 EXCEPT ![productId] = @ - qty]
       /\ reservations = {[reservation_id |-> HeldRId, product_id |-> productId,
                           qty |-> qty, by |-> 0]}
  /\ stock0 = stock
  /\ orders = <<>>
  /\ payments = {}
  /\ shipments = {}
  /\ stages = <<>>
  /\ notifications = {}
  /\ now = 0
  /\ req = [r \in Reqs |-> Idle]

SpecHeld == InitHeld /\ [][InvNext]_vars

(* ------------------- the services after a paid order ------------------- *)

\* The trackingId of the shipment of order 1 in InitPaid.
PaidTrackingId == <<"TRK", 1, 0>>

\* The database after order 1 (product 1) has been created and paid by one
\* pay call: the stock is committed, attempt 1 of the charge has failed and
\* attempt 2 is captured, the shipment is in stage processing.
InitPaid ==
  /\ \E s0 \in {s \in [Products -> {NoRow} \cup 0..MaxStock] :
                  s[1] \in 1..MaxStock /\ s[2] \in {NoRow, MaxStock}},
        qty \in 1..MaxQty :
       /\ s0[1] >= qty
       /\ stock = [s0 EXCEPT ![1] = @ - qty]
       /\ orders = <<[productId |-> 1, qty |-> qty, status |-> "created_paid",
                      trackingId |-> PaidTrackingId]>>
       /\ payments = ChargeRows(PaymentIdOf(1, 1), Price(1) * qty, 1, 0)
                       \cup ChargeRows(PaymentIdOf(1, 2), Price(1) * qty, 1, 0)
  /\ stock0 = stock
  /\ reservations = {}
  /\ shipments = {[order_id |-> 1, tracking_id |-> PaidTrackingId,
                   status |-> "processing", by |-> 0]}
  /\ stages = (PaidTrackingId :> <<"processing">>)
  /\ notifications = {[type |-> "order_confirmed", id |-> 1, reason |-> "", by |-> 0]}
  /\ now = 0
  /\ req = [r \in Reqs |-> Idle]

(* ------------- shipping and receipt after a paid order ----------------- *)

\* The database after order 1 has been paid and its shipment has been
\* advanced k times, one call after the other.
InitShipped ==
  /\ \E s0 \in {s \in [Products -> {NoRow} \cup 0..MaxStock] :
                  s[1] \in 1..MaxStock /\ s[2] \in {NoRow, MaxStock}},
        qty \in 1..MaxQty, k \in 0..3 :
       /\ s0[1] >= qty
       /\ stock = [s0 EXCEPT ![1] = @ - qty]
       /\ orders = <<[productId |-> 1, qty |-> qty,
                      status |-> IF k = 0 THEN "created_paid" ELSE Stages[k + 1],
                      trackingId |-> PaidTrackingId]>>
       /\ payments = ChargeRows(PaymentIdOf(1, 1), Price(1) * qty, 1, 0)
                       \cup ChargeRows(PaymentIdOf(1, 2), Price(1) * qty, 1, 0)
       /\ shipments = {[order_id |-> 1, tracking_id |-> PaidTrackingId,
                        status |-> Stages[k + 1], by |-> 0]}
       /\ stages = (PaidTrackingId :> SubSeq(Stages, 1, k + 1))
       /\ notifications =
            {[type |-> "order_confirmed", id |-> 1, reason |-> "", by |-> 0]}
            \cup {[type |-> ShipmentType(Stages[i]), id |-> 1, reason |-> "", by |-> 0] :
                    i \in 2..(k + 1)}
  /\ stock0 = stock
  /\ reservations = {}
  /\ now = 0
  /\ req = [r \in Reqs |-> Idle]

ShipNext ==
  \/ \E r \in Reqs, trackingId \in {s.tracking_id : s \in shipments}
                                     \cup {UnknownTrackingId, NoId} :
       AdvanceCall(r, trackingId)
  \/ AdvanceStep
  \/ \E r \in Reqs, orderId \in 1..MaxOrders : FulfillCall(r, orderId)
  \/ \E r \in Reqs : FulfillShipment(r) \/ FulfillStage(r)
  \/ \E r \in Reqs, id \in 1..MaxOrders, auth \in BOOLEAN, owner \in BOOLEAN :
       ReceivedCall(r, id, auth, owner)
  \/ \E r \in Reqs : ReceivedUpdate(r)

SpecShip == InitShipped /\ [][ShipNext]_vars

\* The shipment tracker with failing notify and push calls.
ShipFailNext ==
  \/ ShipNext
  \/ \E r \in Reqs : AdvanceNotifyFails(r)
  \/ \E r \in Reqs : AdvancePushFails(r)

SpecShipFail == InitShipped /\ [][ShipFailNext]_vars

\* The calls that move the status of a paid order: advance, the status
\* push called by a client, received.
TrackNext ==
  \/ \E r \in Reqs, trackingId \in {s.tracking_id : s \in shipments}
                                     \cup {UnknownTrackingId, NoId} :
       AdvanceCall(r, trackingId)
  \/ AdvanceStep
  \/ \E r \in Reqs, id \in 1..MaxOrders, status \in ClientStatuses :
       StatusCall(r, id, status)
  \/ \E r \in Reqs : StatusUpdate(r)
  \/ \E r \in Reqs, id \in 1..MaxOrders, auth \in BOOLEAN, owner \in BOOLEAN :
       ReceivedCall(r, id, auth, owner)
  \/ \E r \in Reqs : ReceivedUpdate(r)

SpecTrack == InitShipped /\ [][TrackNext]_vars

\* Calls issued one after the other: a call starts when none is in flight.
ShipSeqNext ==
  \/ Quiescent /\ \E r \in Reqs, trackingId \in {s.tracking_id : s \in shipments}
                                     \cup {UnknownTrackingId, NoId} :
       AdvanceCall(r, trackingId)
  \/ AdvanceStep
  \/ Quiescent /\ \E r \in Reqs, orderId \in 1..MaxOrders : FulfillCall(r, orderId)
  \/ \E r \in Reqs : FulfillShipment(r) \/ FulfillStage(r)

SpecShipSeq == InitShipped /\ [][ShipSeqNext]_vars

(* -------------------- the payments service on its own ------------------ *)

PayNext ==
  \/ \E r \in Reqs, paymentId \in ClientPIds, amount \in ClientAmounts,
        currency \in ClientCurrencies, orderId \in {NoOrder} \cup 1..MaxOrders :
       Charge(r, paymentId, amount, currency, orderId)
  \/ \E r \in Reqs, paymentId \in ClientPIds, amount \in {NoAmount, 0, 50} :
       RefundSelect(r, paymentId, amount)
  \/ \E r \in Reqs : RefundUpdate(r)

SpecPay == InitPaid /\ [][PayNext]_vars



Next ==
  \/ \E productId \in Products, qty \in 1..MaxQty : CreateOrder(productId, qty)
  \/ \E r \in Reqs, id \in 1..MaxOrders, auth \in BOOLEAN : PayCall(r, id, auth)
  \/ PayStep
  \/ InventoryStep

Spec == Init /\ [][Next]_vars

(* ---------------- the endpoints of the Order Ledger -------------------- *)

\* Orders are created, paid, cancelled, pushed and received after order 1
\* has been paid and shipped.
OrdNext ==
  \/ \E productId \in Products, qty \in 1..MaxQty : CreateOrder(productId, qty)
  \/ \E r \in Reqs, id \in 1..MaxOrders, auth \in BOOLEAN : PayCall(r, id, auth)
  \/ PayStep
  \/ InventoryStep
  \/ \E r \in Reqs, id \in 1..MaxOrders, auth \in BOOLEAN : CancelCall(r, id, auth)
  \/ \E r \in Reqs : CancelUpdate(r) \/ CancelNotify(r)
  \/ \E r \in Reqs, id \in 1..MaxOrders, status \in ClientStatuses :
       StatusCall(r, id, status)
  \/ \E r \in Reqs : StatusUpdate(r)
  \/ \E r \in Reqs, id \in 1..MaxOrders, auth \in BOOLEAN, owner \in BOOLEAN :
       ReceivedCall(r, id, auth, owner)
  \/ \E r \in Reqs : ReceivedUpdate(r)

SpecOrd == InitShipped /\ [][OrdNext]_vars

(* ------------------- the saga with leaf calls that answer -------------- *)

\* A step of the handler of request r or of a leaf handler it has called.
StepOf(r) == (PayStep \/ InventoryStep) /\ req'[r] # req[r]

\* Every leaf call returns a response and the event loop runs the
\* continuation of every await: a request that can take a step takes it.
SpecLive == Init /\ [][Next]_vars /\ \A r \in Reqs : WF_vars(StepOf(r))

(* ------------- the saga with a fulfill that cannot persist ------------- *)

\* The insert of the shipment fails (the database of the shipping service
\* does not answer): the catch swallows the error, the stage is skipped and
\* fulfill returns { trackingId } as if the shipment had been recorded.
FulfillInsertFails(r) ==
  /\ req[r].pc = "p_fulfill"
  /\ now' \in {now, now + 1}
  /\ req' = [req EXCEPT ![r] =
       AfterFulfill([req[r] EXCEPT !.trackingId = <<"TRK", req[r].order, now'>>])]
  /\ UNCHANGED <<stock, stock0, reservations, orders, payments, shipments,
                 stages, notifications>>

LossNext ==
  \/ Next
  \/ \E r \in Reqs : FulfillInsertFails(r)

SpecLoss == Init /\ [][LossNext]_vars

(* ------------- the saga with failing commit and release ---------------- *)

\* A query of the commit or release handler called by the saga fails (the
\* delete of commit or release, or the update of release after its delete):
\* the handler answers 500.  The saga does not look at the response.
InventoryError(r) ==
  /\ req[r].kind = "pay"
  /\ req[r].pc \in {"commit", "rel_delete", "rel_update"}
  /\ req' = [req EXCEPT ![r] = AfterInventory(req[r], 500)]
  /\ UNCHANGED <<stock, stock0, reservations, orders, payments, shipments,
                 stages, notifications, now>>

\* The saga, clients that commit or release a reservation that is held (the
\* inventory service is reachable through the gateway), and failing queries
\* of commit and release.
CompNext ==
  \/ \E productId \in Products, qty \in 1..MaxQty : CreateOrder(productId, qty)
  \/ \E r \in Reqs, id \in 1..MaxOrders, auth \in BOOLEAN : PayCall(r, id, auth)
  \/ PayStep
  \/ InventoryStep
  \/ \E r \in Reqs, reservationId \in {row.reservation_id : row \in reservations} :
       CommitCall(r, reservationId) \/ ReleaseCall(r, reservationId)
  \/ \E r \in Reqs : InventoryError(r)

SpecComp == Init /\ [][CompNext]_vars

(* ------------------ the saga with failing leaf calls ------------------- *)

\* The pcs of a pay request at which it is about to issue a fetch.
FetchPcs ==
  {"rsv_ensure", "p_reserved", "p_charge", "p_notify_payment", "rel_delete",
   "commit", "p_fulfill", "p_notify_confirmed"}

\* The leaf call a pay request is about to issue: its name and its argument.
CallAt(rq) ==
  IF rq.pc = "rsv_ensure" THEN <<"reserve", "">>
  ELSE IF rq.pc = "p_reserved" /\ rq.code # 200 THEN <<"notify", "order_failed">>
  ELSE IF rq.pc \in {"p_reserved", "p_charge"}
       THEN <<"charge", PaymentIdOf(rq.order, rq.attempt + 1)>>
  ELSE IF rq.pc = "p_notify_payment" THEN <<"notify", "payment_failed">>
  ELSE IF rq.pc = "rel_delete" THEN <<"release", "">>
  ELSE IF rq.pc = "commit" THEN <<"commit", "">>
  ELSE IF rq.pc = "p_fulfill" THEN <<"fulfill", "">>
  ELSE <<"notify", "order_confirmed">>

\* A fetch of the saga rejects (the leaf service is unreachable: its handler
\* does not run).  No fetch of processOrder or processPayment is in a try
\* block: the error leaves both functions and the pay handler, and the
\* default error handler answers 500.  Code 0 in calls: no response.
FetchError(r) ==
  /\ req[r].kind = "pay"
  /\ req[r].pc \in FetchPcs
  /\ req' = [req EXCEPT ![r].pc = "done", ![r].code = 500,
                        ![r].calls = Append(@, Call(CallAt(req[r])[1],
                                                    CallAt(req[r])[2], 0))]
  /\ UNCHANGED <<stock, stock0, reservations, orders, payments, shipments,
                 stages, notifications, now>>

\* POST /notify answers 400 (notifySchema: `to` is the email of the token,
\* which may be missing) and records nothing; the saga does not look at the
\* response of a notify call and goes on.
NotifyRejected(r) ==
  /\ req[r].kind = "pay"
  /\ \/ req[r].pc = "p_reserved" /\ req[r].code # 200
     \/ req[r].pc \in {"p_notify_payment", "p_notify_confirmed"}
  /\ req' = [req EXCEPT ![r] =
       IF req[r].pc = "p_reserved"
       THEN [req[r] EXCEPT !.pc = "p_set_failed_stock",
                           !.calls = Append(@, Call("notify", "order_failed", 400))]
       ELSE IF req[r].pc = "p_notify_payment"
       THEN [req[r] EXCEPT !.pc = "rel_delete",
                           !.calls = Append(@, Call("notify", "payment_failed", 400))]
       ELSE [req[r] EXCEPT !.pc = "done", !.code = 200,
                           !.calls = Append(@, Call("notify", "order_confirmed", 400))]]
  /\ UNCHANGED <<stock, stock0, reservations, orders, payments, shipments,
                 stages, notifications, now>>

FailNext ==
  \/ \E productId \in Products, qty \in 1..MaxQty : CreateOrder(productId, qty)
  \/ \E r \in Reqs, id \in 1..MaxOrders, auth \in BOOLEAN : PayCall(r, id, auth)
  \/ PayStep
  \/ InventoryStep
  \/ \E r \in Reqs : FetchError(r)
  \/ \E r \in Reqs : NotifyRejected(r)

SpecFail == Init /\ [][FailNext]_vars

(* ============================== claims ================================ *)

RECURSIVE SumOver(_, _)
\* The sum of f[x] over the finite set S.
SumOver(f, S) ==
  IF S = {} THEN 0
  ELSE LET x == CHOOSE y \in S : TRUE IN f[x] + SumOver(f, S \ {x})

StockQty0(productId) ==
  IF stock0[productId] = NoRow THEN 0 ELSE stock0[productId]

RowsBy(r) == {row \in reservations : row.by = r}

Returned(r, kind, code) ==
  req[r].kind = kind /\ req[r].pc = "done" /\ req[r].code = code

(* C1: No oversell.  The stock of a product is never negative, and when     *)
(* every request is a reserve of the same qty q on the same product, with   *)
(* its own reservationId, and all have returned, exactly min(N, K div q)    *)
(* of them have succeeded, K being the initial stock.                       *)
C1_NoOversell ==
  /\ \A productId \in Products : StockQty(productId) >= 0
  /\ \A productId \in Products, q \in 1..MaxQty :
       ( /\ \A r \in Reqs : /\ req[r].kind = "reserve" /\ req[r].pc = "done"
                            /\ req[r].productId = productId /\ req[r].qty = q
         /\ \A r1, r2 \in Reqs :
              r1 # r2 => req[r1].reservationId # req[r2].reservationId )
       => LET K == StockQty0(productId)
              ok == Cardinality({r \in Reqs : req[r].code = 200})
          IN ok = IF K \div q < NumReqs THEN K \div q ELSE NumReqs

(* C2: Stock invariant.  After every prefix of a sequence of calls (no call *)
(* in flight), the stock of a product is its initial qty minus the qty of   *)
(* the reserves that succeeded plus the qty of the releases that succeeded. *)
C2_StockInvariant ==
  Quiescent =>
    \A productId \in Products :
      LET reserved == [r \in Reqs |->
            IF Returned(r, "reserve", 200) /\ req[r].productId = productId
            THEN req[r].qty ELSE 0]
          released == [r \in Reqs |->
            IF Returned(r, "release", 200) /\ req[r].productId = productId
            THEN req[r].qty ELSE 0]
      IN StockQty(productId) =
           StockQty0(productId) - SumOver(reserved, Reqs) + SumOver(released, Reqs)

C10_ReserveAllOrNothing ==
  \A r \in Reqs :
    req[r].kind = "reserve" /\ req[r].pc = "done" /\ req[r].code # 200 =>
      req[r].net = 0 /\ RowsBy(r) = {}


(* ------------------------------ the saga ------------------------------- *)

\* The step in which the pay request r returns its response.
PayReturns(r) ==
  req[r].kind = "pay" /\ InFlight(r) /\ req'[r].pc = "done"

CallsOf(calls, name) == SelectSeq(calls, LAMBDA c : c.call = name)

Answered(calls, name, code) ==
  \E i \in 1..Len(calls) : calls[i].call = name /\ calls[i].code = code

ReserveSucceeded(calls) == Answered(calls, "reserve", 200)

ReserveFailed(calls) ==
  \E i \in 1..Len(calls) : calls[i].call = "reserve" /\ calls[i].code # 200

ChargeCaptured(calls) == Answered(calls, "charge", 200)

AllChargesFailed(calls) ==
  /\ Len(CallsOf(calls, "charge")) = 3
  /\ ~ChargeCaptured(calls)

Notified(type, id, reason, r) ==
  [type |-> type, id |-> id, reason |-> reason, by |-> r] \in notifications

CapturedOf(id) ==
  {p \in payments : p.order_id = id /\ p.status = "captured"}

(* C3: No double-charging.  For every order, at most one charge ever ends   *)
(* with status captured.                                                    *)
C3_NoDoubleCharge ==
  \A id \in OrderIds : Cardinality(CapturedOf(id)) <= 1

(* C4: No stock leak.  When no pay call is in flight, no reservation row    *)
(* remains and the stock of each product is its initial qty minus the qty   *)
(* of the orders of that product that were paid.                            *)
C4_NoStockLeak ==
  Quiescent =>
    /\ reservations = {}
    /\ \A productId \in Products :
         LET committed == [id \in OrderIds |->
               IF orders[id].productId = productId /\ orders[id].status = "created_paid"
               THEN orders[id].qty ELSE 0]
         IN StockQty(productId) = StockQty0(productId) - SumOver(committed, OrderIds)

(* C5: Compensation on payment failure.  When a pay call whose reserve      *)
(* succeeded and whose 3 charge attempts all failed returns, it returns     *)
(* 402, its release call has succeeded, its reservation row is gone, what   *)
(* it took from the stock has been put back, the order is failed and a      *)
(* payment_failed notification of this call is recorded.                    *)
C5_PaymentFailureCompensation ==
  [][\A r \in Reqs :
       PayReturns(r) /\ ReserveSucceeded(req'[r].calls)
                     /\ AllChargesFailed(req'[r].calls) =>
         /\ req'[r].code = 402
         /\ Answered(req'[r].calls, "release", 200)
         /\ {row \in reservations' : row.by = r} = {}
         /\ req'[r].net = 0
         /\ orders'[req[r].order].status = "failed"
         /\ Notified("payment_failed", req[r].order, "", r)']_vars

\* A pay call has returned 402 after three failed charges, and the stock is
\* what it was before the call.
C5_Witness ==
  \E r \in Reqs :
    /\ Returned(r, "pay", 402)
    /\ AllChargesFailed(req[r].calls)
    /\ \A s \in Reqs : s # r => req[s].kind \in {"none"}
    /\ stock = [stock0 EXCEPT ![req[r].productId] = StockQty0(req[r].productId)]

(* C6: Saga success postcondition.  When a pay call whose reserve succeeded *)
(* and one of whose charges was captured returns, it returns 200, its       *)
(* reservation is committed (row gone, stock still decremented by qty),     *)
(* exactly one shipment exists for the order, in stage processing, the      *)
(* order is created_paid with the trackingId fulfill returned, the amount   *)
(* charged is price * qty and an order_confirmed notification is recorded.  *)
C6_SuccessPostcondition ==
  [][\A r \in Reqs :
       PayReturns(r) /\ ReserveSucceeded(req'[r].calls)
                     /\ ChargeCaptured(req'[r].calls) =>
         LET id == req[r].order IN
         /\ req'[r].code = 200
         /\ Answered(req'[r].calls, "commit", 200)
         /\ {row \in reservations' : row.by = r} = {}
         /\ req'[r].net = - orders[id].qty
         /\ Cardinality({s \in shipments' : s.order_id = id}) = 1
         /\ \A s \in shipments' : s.order_id = id =>
              s.status = "processing" /\ s.tracking_id = req'[r].trackingId
         /\ orders'[id].status = "created_paid"
         /\ orders'[id].trackingId = req'[r].trackingId
         /\ \E p \in payments' :
              /\ p.by = r /\ p.status = "captured"
              /\ p.amount = Price(orders[id].productId) * orders[id].qty
         /\ Notified("order_confirmed", id, "", r)']_vars

(* C7: Pay precondition.  A pay call, with a valid token, on an existing    *)
(* order whose status is neither failed nor created_unpaid returns 409 at   *)
(* once: it issues no call and no table changes.                            *)
C7_PayPrecondition ==
  [][\A r \in Reqs :
       ( /\ req[r].pc = "idle" /\ req'[r].kind = "pay" /\ req'[r].auth
         /\ req'[r].order \in OrderIds
         /\ ~Payable(orders[req'[r].order].status) ) =>
         /\ req'[r].pc = "done"
         /\ req'[r].code = 409
         /\ req'[r].calls = <<>>
         /\ UNCHANGED <<stock, reservations, orders, payments, shipments,
                        stages, notifications>>]_vars

\* A pay call on a paid order has been rejected.
C7_Witness ==
  \E r \in Reqs :
    /\ Returned(r, "pay", 409)
    /\ req[r].ostatus = "created_paid"
    /\ req[r].calls = <<>>

(* C8: Saga reserve failure.  When a pay call whose reserve call failed     *)
(* returns, it returns 409, the order is failed, an order_failed            *)
(* notification with reason stock is recorded, no charge, commit, release   *)
(* or fulfill call was issued and the call has left the stock unchanged.    *)
C8_ReserveFailure ==
  [][\A r \in Reqs :
       PayReturns(r) /\ ReserveFailed(req'[r].calls) =>
         /\ req'[r].code = 409
         /\ orders'[req[r].order].status = "failed"
         /\ Notified("order_failed", req[r].order, "stock", r)'
         /\ \A i \in 1..Len(req'[r].calls) :
              req'[r].calls[i].call \notin {"charge", "commit", "release", "fulfill"}
         /\ req'[r].net = 0]_vars

(* ----------------------- commit and release ---------------------------- *)

\* The request s has removed a row of reservationId by a commit or a release.
Removed(s, reservationId) ==
  /\ req[s].kind \in {"commit", "release"}
  /\ req[s].reservationId = reservationId
  /\ \/ req[s].pc = "done" /\ req[s].code = 200
     \/ req[s].pc = "rel_update"

\* Some reserve request for reservationId has been issued.
ReserveIssued(reservationId) ==
  \E s \in Reqs : req[s].kind = "reserve" /\ req[s].reservationId = reservationId

(* C11: commit removes the reservation row and leaves stock.qty unchanged;  *)
(* a commit on an absent reservationId returns 404 and changes nothing, in  *)
(* particular a commit that follows a successful commit or release of the   *)
(* same reservation (with no reserve of that id in between) returns 404.    *)
C11_Commit ==
  [][\A r \in Reqs :
       req[r].kind = "commit" /\ req[r].pc = "commit" /\ req'[r].pc = "done" =>
         LET rows == RowsOf(req[r].reservationId) IN
         /\ stock' = stock
         /\ rows # {} => /\ req'[r].code = 200
                         /\ reservations' = reservations \ rows
                         /\ {row \in reservations' :
                               row.reservation_id = req[r].reservationId} = {}
         /\ rows = {} => /\ req'[r].code = 404
                         /\ reservations' = reservations
         /\ ( /\ \E s \in Reqs \ {r} : Removed(s, req[r].reservationId)
              /\ ~ReserveIssued(req[r].reservationId) )
            => req'[r].code = 404]_vars

\* The held reservation has been committed twice: the first commit succeeded,
\* the second was answered 404, and the stock is what it was.
C11_Witness ==
  \E r1, r2 \in Reqs :
    /\ Returned(r1, "commit", 200) /\ req[r1].reservationId = HeldRId
    /\ Returned(r2, "commit", 404) /\ req[r2].reservationId = HeldRId
    /\ reservations = {}
    /\ stock = stock0

\* The sum of the net effects on the stock of productId of all requests.
NetOn(productId) ==
  SumOver([r \in Reqs |-> IF req[r].productId = productId THEN req[r].net ELSE 0],
          Reqs)

\* While no reserve has re-created the held reservation: at most one commit
\* or release has removed it, exactly one once all calls have returned, only
\* that release has added to the stock, and it has added the qty of the row.
HeldOnce ==
  ~ReserveIssued(HeldRId) =>
    LET on == {r \in Reqs : req[r].kind \in {"commit", "release"}
                            /\ req[r].reservationId = HeldRId}
        won == {r \in on : Removed(r, HeldRId)}
    IN /\ Cardinality(won) <= 1
       /\ Quiescent /\ on # {} => Cardinality(won) = 1
       /\ \A r \in on :
            /\ req[r].net # 0 =>
                 r \in won /\ req[r].kind = "release" /\ req[r].net = req[r].qty
            /\ Returned(r, "release", 200) => req[r].net = req[r].qty /\ req[r].qty > 0
            /\ Returned(r, "commit", 200) => \A s \in on : req[s].net = 0
       /\ \A productId \in Products :
            StockQty(productId) = StockQty0(productId) + NetOn(productId)

(* C12: a reservation's qty is returned to stock at most once.  A release   *)
(* on an absent reservationId returns 404 and changes nothing; of the       *)
(* concurrent release and commit calls on one reservation exactly one       *)
(* succeeds, and the stock gets the qty back at most once, never after a    *)
(* successful commit.                                                       *)
C12_ReleaseAtMostOnce ==
  [][ /\ \A r \in Reqs :
           req[r].kind = "release" /\ req[r].pc = "rel_delete"
             /\ req'[r].pc # "rel_delete" /\ RowsOf(req[r].reservationId) = {} =>
               /\ req'[r].pc = "done" /\ req'[r].code = 404 /\ req'[r].net = 0
               /\ stock' = stock /\ reservations' = reservations
      /\ HeldOnce' ]_vars

\* Two releases of the held reservation have returned: one succeeded, one was
\* answered 404, and the stock has the qty back once.
C12_Witness ==
  \E r1, r2 \in Reqs :
    /\ Returned(r1, "release", 200) /\ req[r1].reservationId = HeldRId
    /\ Returned(r2, "release", 404) /\ req[r2].reservationId = HeldRId
    /\ stock[req[r1].productId] = stock0[req[r1].productId] + req[r1].qty

(* ------------------------------ payments ------------------------------- *)

\* The last character of paymentId is the digit d.
EndsIn(paymentId, d) ==
  Len(paymentId) >= 1 /\ paymentId[Len(paymentId)] = DigitChars[d + 1]

\* The body of the charge request r passes chargeSchema.
ChargeValid(r) ==
  Len(req[r].paymentId) >= 1 /\ req[r].amount > 0 /\ Len(req[r].currency) >= 1

\* The response of the charge request r is the one the parity of d asks for.
ParityOutcome(r, d) ==
  IF d % 2 = 0
  THEN req[r].code = 200 /\ req[r].pstatus = "captured"
  ELSE req[r].code = 402 /\ req[r].pstatus = "failed"

(* C13 as stated: the outcome of every charge is decided by its paymentId   *)
(* alone: a paymentId ending in an even digit yields captured (200), one    *)
(* ending in an odd digit yields failed (402), whatever the amount, the     *)
(* currency, the orderId and the earlier charges.                           *)
C13_ParityAnyBody ==
  \A r \in Reqs : req[r].kind = "charge" /\ req[r].pc = "done" =>
    \A d \in 0..9 : EndsIn(req[r].paymentId, d) => ParityOutcome(r, d)

(* C13, amended: the outcome of every charge whose body passes validation   *)
(* (amount > 0, non-empty currency) is decided by its paymentId alone:      *)
(* even last digit yields captured (200), odd last digit failed (402),      *)
(* whatever the amount, the currency, the orderId and the earlier charges;  *)
(* two such charges with the same paymentId have the same outcome.          *)
C13_ParityDeterminism ==
  /\ \A r \in Reqs : req[r].kind = "charge" /\ req[r].pc = "done" /\ ChargeValid(r) =>
       \A d \in 0..9 : EndsIn(req[r].paymentId, d) => ParityOutcome(r, d)
  /\ \A r1, r2 \in Reqs :
       ( /\ req[r1].kind = "charge" /\ req[r1].pc = "done" /\ ChargeValid(r1)
         /\ req[r2].kind = "charge" /\ req[r2].pc = "done" /\ ChargeValid(r2)
         /\ req[r1].paymentId = req[r2].paymentId )
       => req[r1].code = req[r2].code /\ req[r1].pstatus = req[r2].pstatus

\* Two valid charges with the same even paymentId, different amounts and
\* different orderIds have both been captured, after the charges of the pay.
C13_Witness ==
  \E r1, r2 \in Reqs :
    /\ r1 # r2
    /\ req[r1].kind = "charge" /\ req[r2].kind = "charge"
    /\ ChargeValid(r1) /\ ChargeValid(r2)
    /\ req[r1].paymentId = PaymentIdOf(1, 2) /\ req[r2].paymentId = PaymentIdOf(1, 2)
    /\ req[r1].amount # req[r2].amount /\ req[r1].order # req[r2].order
    /\ req[r1].code = 200 /\ req[r2].code = 200

(* C14: refund precondition.  A refund (with a well-formed body) that finds *)
(* no payment of the paymentId returns 404; one that reads a payment whose  *)
(* status is not captured returns 409, and no payment changes; 409 is       *)
(* returned in that case only; one that reads a captured payment sets the   *)
(* status of the payment to refunded and returns 200, and this update       *)
(* changes the status of no payment that is failed or refunded.             *)
C14_RefundPrecondition ==
  [][\A r \in Reqs :
       /\ ( req[r].pc = "idle" /\ req'[r].kind = "refund" /\ req'[r].code # 400 ) =>
            LET rows == PaymentsOf(req'[r].paymentId) IN
            /\ payments' = payments
            /\ rows = {} => req'[r].pc = "done" /\ req'[r].code = 404
            /\ rows # {} /\ (\A row \in rows : row.status # "captured") =>
                 req'[r].pc = "done" /\ req'[r].code = 409
            /\ rows # {} /\ (\A row \in rows : row.status = "captured") =>
                 req'[r].pc = "ref_update"
            /\ req'[r].code = 409 =>
                 \E row \in rows : row.status # "captured"
                                   /\ row.status = req'[r].pstatus
            /\ req'[r].pc = "ref_update" => req'[r].pstatus = "captured"
       /\ ( req[r].kind = "refund" /\ req[r].pc = "ref_update"
            /\ req'[r].pc = "done" ) =>
            /\ req'[r].code = 200
            /\ \A row \in payments' :
                 row.payment_id = req[r].paymentId => row.status = "refunded"
            /\ \A row \in payments :
                 \/ row \in payments'
                 \/ /\ row.payment_id = req[r].paymentId
                    /\ row.status = "captured"
                    /\ [row EXCEPT !.status = "refunded"] \in payments']_vars

\* The captured payment of order 1 has been refunded, a second refund of it
\* was answered 409, and the failed payment is still failed.
C14_Witness ==
  \E r1, r2 \in Reqs :
    /\ Returned(r1, "refund", 200) /\ req[r1].paymentId = PaymentIdOf(1, 2)
    /\ Returned(r2, "refund", 409) /\ req[r2].paymentId = PaymentIdOf(1, 2)
    /\ req[r2].pstatus = "refunded"
    /\ \A row \in PaymentsOf(PaymentIdOf(1, 2)) : row.status = "refunded"
    /\ \E row \in PaymentsOf(PaymentIdOf(1, 1)) : row.status = "failed"

(* ------------------------------ shipping ------------------------------- *)

(* C15: idempotent terminal advance.  Every advance call on a shipment      *)
(* whose status is delivered_to_pickup returns { status:                    *)
(* delivered_to_pickup, done: true } at once: it appends no stage, changes  *)
(* no shipment, sends no notification and pushes no status to the Order     *)
(* Ledger, however many advance calls came before.                          *)
C15_TerminalAdvance ==
  [][\A r \in Reqs :
       ( /\ req[r].pc = "idle" /\ req'[r].kind = "advance"
         /\ \E s \in ShipmentsOf(req'[r].trackingId) :
              s.status = "delivered_to_pickup" ) =>
         /\ req'[r].pc = "done"
         /\ req'[r].code = 200
         /\ req'[r].rstatus = "delivered_to_pickup"
         /\ req'[r].done = TRUE
         /\ req'[r].calls = <<>>
         /\ UNCHANGED <<shipments, stages, orders, notifications>>]_vars

\* Two advance calls on the delivered shipment have returned done, and the
\* history of the shipment is the four stages.
C15_Witness ==
  \E r1, r2 \in Reqs :
    /\ r1 # r2
    /\ Returned(r1, "advance", 200) /\ req[r1].sstatus = "delivered_to_pickup"
    /\ Returned(r2, "advance", 200) /\ req[r2].sstatus = "delivered_to_pickup"
    /\ req[r1].done /\ req[r2].done
    /\ req[r1].trackingId = PaidTrackingId /\ req[r2].trackingId = PaidTrackingId
    /\ stages[PaidTrackingId] = Stages

\* h is a non-empty prefix of the sequence of the stages.
IsStagePrefix(h) ==
  Len(h) \in 1..Len(Stages) /\ h = SubSeq(Stages, 1, Len(h))

(* C16: shipment stage invariant.  Whenever no call is in flight, after any *)
(* interleaving of fulfill and advance calls, the stage history of every    *)
(* shipment is a non-empty prefix of processing, collected, in_transit,     *)
(* delivered_to_pickup and the status of the shipment is its last stage.    *)
C16_StageInvariant ==
  Quiescent =>
    \A s \in shipments :
      /\ s.tracking_id \in DOMAIN stages
      /\ IsStagePrefix(stages[s.tracking_id])
      /\ s.status = stages[s.tracking_id][Len(stages[s.tracking_id])]

(* C17: received is accepted only when the status of the order that the     *)
(* call reads is delivered_to_pickup, and the status then becomes received; *)
(* for every other status the call (of the owner, on an existing order)     *)
(* returns 409 and the order is unchanged.                                  *)
C17_Received ==
  [][\A r \in Reqs :
       /\ ( /\ req[r].pc = "idle" /\ req'[r].kind = "received"
            /\ req'[r].code \notin {401, 403, 404} ) =>
            /\ orders' = orders
            /\ orders[req'[r].order].status # "delivered_to_pickup" =>
                 req'[r].pc = "done" /\ req'[r].code = 409
            /\ orders[req'[r].order].status = "delivered_to_pickup" =>
                 req'[r].pc = "rcv_update"
       /\ ( req[r].kind = "received" /\ req[r].pc = "rcv_update"
            /\ req'[r].pc = "done" ) =>
            /\ req[r].ostatus = "delivered_to_pickup"
            /\ req'[r].code = 200
            /\ orders'[req[r].order].status = "received"
            /\ \A id \in OrderIds : id # req[r].order => orders'[id] = orders[id]]_vars

\* The delivered order has been received, and a second received call on it
\* has been answered 409.
C17_Witness ==
  \E r1, r2 \in Reqs :
    /\ Returned(r1, "received", 200) /\ req[r1].ostatus = "delivered_to_pickup"
    /\ Returned(r2, "received", 409) /\ req[r2].ostatus = "received"
    /\ req[r1].order = req[r2].order
    /\ orders[req[r1].order].status = "received"

(* ----------------------- the saga and its leaf calls ------------------- *)

\* Some call of the names has not been answered (the fetch has rejected).
Errored(calls, names) ==
  \E i \in 1..Len(calls) : calls[i].call \in names /\ calls[i].code = 0

\* Some notify call has failed: an error response, or no response.
NotifyFailed(calls) ==
  \E i \in 1..Len(calls) : calls[i].call = "notify" /\ calls[i].code # 200

StatusSet(calls, status) ==
  \E i \in 1..Len(calls) :
    calls[i].call = "setOrderStatus" /\ calls[i].arg = status

(* C18: notification failures never block the saga.  When a pay call in     *)
(* which a notify call has failed (error response or no response) and every *)
(* other leaf call has been answered returns, it has done the remaining     *)
(* steps of its path and returns the code of the path: after a failed       *)
(* reserve the order has been set to failed and the code is 409; after      *)
(* three failed charges the release has been called, the order has been set *)
(* to failed and the code is 402; after a captured charge the order has     *)
(* been set to created_paid and the code is 200.                            *)
C18_NotifyNeverBlocks ==
  [][\A r \in Reqs :
       ( /\ PayReturns(r)
         /\ NotifyFailed(req'[r].calls)
         /\ ~Errored(req'[r].calls, {"reserve", "charge", "commit", "release", "fulfill"}) )
       => /\ ReserveFailed(req'[r].calls) =>
               StatusSet(req'[r].calls, "failed") /\ req'[r].code = 409
          /\ ReserveSucceeded(req'[r].calls) /\ AllChargesFailed(req'[r].calls) =>
               /\ \E i \in 1..Len(req'[r].calls) : req'[r].calls[i].call = "release"
               /\ StatusSet(req'[r].calls, "failed")
               /\ req'[r].code = 402
          /\ ReserveSucceeded(req'[r].calls) /\ ChargeCaptured(req'[r].calls) =>
               StatusSet(req'[r].calls, "created_paid") /\ req'[r].code = 200]_vars

(* C19: upstream failure triggers compensation.  When a pay call whose      *)
(* reserve succeeded and one of whose charge, commit or fulfill calls got   *)
(* no response returns, it does not leave its reservation live together     *)
(* with an order that is still payable and no captured payment of the call. *)
C19_UpstreamCompensation ==
  [][\A r \in Reqs :
       ( /\ PayReturns(r)
         /\ ReserveSucceeded(req'[r].calls)
         /\ Errored(req'[r].calls, {"charge", "commit", "fulfill"}) )
       => ~( /\ {row \in reservations' : row.by = r} # {}
             /\ Payable(orders'[req[r].order].status)
             /\ {p \in payments' : p.by = r /\ p.status = "captured"} = {} )]_vars

\* The position of a call in the order of the steps of a pay: reserve,
\* charge, commit, fulfill, the update to created_paid, the confirmation;
\* 0 for the calls of the failure paths.
Rank(c) ==
  IF c.call = "reserve" THEN 1
  ELSE IF c.call = "charge" THEN 2
  ELSE IF c.call = "commit" THEN 3
  ELSE IF c.call = "fulfill" THEN 4
  ELSE IF c.call = "setOrderStatus" /\ c.arg = "created_paid" THEN 5
  ELSE IF c.call = "notify" /\ c.arg = "order_confirmed" THEN 6
  ELSE 0

(* C20: saga step ordering.  In the sequence of the calls of one pay        *)
(* execution, reserve, the charge attempts, commit, fulfill, the update of  *)
(* the order to created_paid and the order_confirmed notification occur in  *)
(* that order, each at most once but charge; a charge is issued only after  *)
(* the reserve of the execution has succeeded; commit, fulfill and the      *)
(* update to created_paid only after a charge of the execution was          *)
(* captured.                                                                *)
C20_StepOrdering ==
  \A r \in Reqs : req[r].kind = "pay" =>
    LET calls == req[r].calls IN
    /\ \A i, j \in 1..Len(calls) :
         i < j /\ Rank(calls[i]) > 0 /\ Rank(calls[j]) > 0 =>
           \/ Rank(calls[i]) < Rank(calls[j])
           \/ calls[i].call = "charge" /\ calls[j].call = "charge"
    /\ \A j \in 1..Len(calls) :
         /\ j > 1 => Rank(calls[j]) # 1
         /\ Rank(calls[j]) = 2 =>
              calls[1].call = "reserve" /\ calls[1].code = 200
         /\ Rank(calls[j]) \in {3, 4, 5, 6} =>
              \E i \in 1..(j - 1) : calls[i].call = "charge" /\ calls[i].code = 200
         /\ Rank(calls[j]) > 1 => Rank(calls[j - 1]) \in {Rank(calls[j]) - 1, Rank(calls[j])}

\* A pay call has returned 200 after all the steps of the success path: the
\* reserve, a failed and a captured charge, commit, fulfill, the update and
\* the confirmation.
C20_Witness ==
  \E r \in Reqs :
    /\ Returned(r, "pay", 200)
    /\ Len(req[r].calls) = 7
    /\ [i \in 1..7 |-> Rank(req[r].calls[i])] = <<1, 2, 2, 3, 4, 5, 6>>
    /\ req[r].calls[2].code = 402 /\ req[r].calls[3].code = 200

(* C21: charge retry.  One pay execution issues at most 3 charge calls,     *)
(* the k-th with paymentId p-{orderId}-k; no charge call follows a captured *)
(* one; payment failure (402, the payment_failed notification) is reported  *)
(* only after exactly 3 charges, none of them captured.                     *)
C21_ChargeRetry ==
  \A r \in Reqs : req[r].kind = "pay" =>
    LET charges == CallsOf(req[r].calls, "charge") IN
    /\ Len(charges) <= 3
    /\ \A k \in 1..Len(charges) :
         /\ charges[k].arg = <<"p", "-">> \o Digits(req[r].order) \o <<"-">> \o Digits(k)
         /\ k < Len(charges) => charges[k].code # 200
    /\ ( \/ Returned(r, "pay", 402)
         \/ \E i \in 1..Len(req[r].calls) :
              req[r].calls[i].call = "notify" /\ req[r].calls[i].arg = "payment_failed" )
       => /\ Len(charges) = 3
          /\ \A k \in 1..3 : charges[k].code \notin {0, 200}

\* A pay call has returned 402 after the three charges p-1-1, p-1-2, p-1-3,
\* and another has returned 200 after the two charges p-2-1 and p-2-2.
C21_Witness ==
  \E r1, r2 \in Reqs :
    /\ Returned(r1, "pay", 402)
    /\ [k \in 1..3 |-> CallsOf(req[r1].calls, "charge")[k].arg]
         = <<PaymentIdOf(req[r1].order, 1), PaymentIdOf(req[r1].order, 2),
             PaymentIdOf(req[r1].order, 3)>>
    /\ Returned(r2, "pay", 200)
    /\ Len(CallsOf(req[r2].calls, "charge")) = 2
    /\ CallsOf(req[r2].calls, "charge")[2].code = 200

(* C22: a successful pay returns the snapshot of the paid order: the order  *)
(* in the 200 response has status created_paid and the trackingId that      *)
(* fulfill returned.                                                        *)
C22_ReturnedSnapshot ==
  [][\A r \in Reqs :
       PayReturns(r) /\ req'[r].code = 200 =>
         /\ PayResponseOrder(req'[r]).status = "created_paid"
         /\ PayResponseOrder(req'[r]).trackingId = req'[r].trackingId]_vars

\* Request r takes a step in which it is a request of the given kind.
Steps(r, kind) == req'[r] # req[r] /\ req'[r].kind = kind

(* C23: status push.  A push with a status outside processing, collected,   *)
(* in_transit, delivered_to_pickup returns 400, a push for an unknown order *)
(* returns 404, and neither modifies an order; an accepted push (200) sets  *)
(* the status of exactly that order to the pushed value.                    *)
C23_StatusPush ==
  [][\A r \in Reqs : Steps(r, "status") =>
       LET valid == req'[r].next \in {Stages[i] : i \in DOMAIN Stages}
           id == req'[r].order
       IN /\ ~valid => req'[r].pc = "done" /\ req'[r].code = 400 /\ orders' = orders
          /\ valid /\ id \notin OrderIds =>
               req'[r].pc = "done" /\ req'[r].code = 404 /\ orders' = orders
          /\ req'[r].pc = "done" /\ req'[r].code \in {400, 404} =>
               (~valid \/ id \notin OrderIds) /\ orders' = orders
          /\ req'[r].pc = "done" /\ req'[r].code = 200 =>
               /\ valid /\ id \in OrderIds
               /\ orders' = [orders EXCEPT ![id].status = req'[r].next]
          /\ req'[r].pc # "done" => orders' = orders]_vars

\* A push of in_transit for an order has returned 200 and the order has that
\* status; a push of received has returned 400.
C23_Witness ==
  \E r1, r2 \in Reqs :
    /\ Returned(r1, "status", 200) /\ req[r1].next = "in_transit"
    /\ orders[req[r1].order].status = "in_transit"
    /\ Returned(r2, "status", 400) /\ req[r2].next = "received"

(* C24: cancel.  cancel goes on only for an order that it has read as       *)
(* created_unpaid, and then sets its status to failed and leaves the row in *)
(* place; for an order read in any other status it returns 409 and changes  *)
(* nothing; no step of any operation removes an order or changes its        *)
(* product or quantity.                                                     *)
C24_Cancel ==
  [][/\ \A r \in Reqs : Steps(r, "cancel") =>
          /\ req[r].pc = "idle" /\ req'[r].auth /\ req'[r].order \in OrderIds
               /\ orders[req'[r].order].status # "created_unpaid"
               => req'[r].pc = "done" /\ req'[r].code = 409
          /\ req[r].pc = "idle" \/ req'[r].code \in {401, 404, 409} => orders' = orders
          /\ req[r].pc = "cn_update" =>
               /\ req[r].ostatus = "created_unpaid"
               /\ orders' = [orders EXCEPT ![req[r].order].status = "failed"]
          /\ req'[r].pc = "done" /\ req'[r].code = 200 =>
               req[r].ostatus = "created_unpaid" /\ orders' = orders
     /\ Len(orders') >= Len(orders)
     /\ \A i \in 1..Len(orders) :
          /\ orders'[i].productId = orders[i].productId
          /\ orders'[i].qty = orders[i].qty]_vars

\* One cancel has returned 200 and its order is there with status failed;
\* a cancel of the same order has then returned 409.
C24_Witness ==
  \E r1, r2 \in Reqs :
    /\ Returned(r1, "cancel", 200)
    /\ req[r1].order \in OrderIds /\ orders[req[r1].order].status = "failed"
    /\ Returned(r2, "cancel", 409) /\ req[r2].order = req[r1].order
    /\ req[r2].ostatus = "failed"

(* C25: create is not pay.  A step that creates an order appends one order  *)
(* with status created_unpaid and no trackingId, and leaves the other       *)
(* orders, stock, reservations, payments and shipments unchanged.           *)
C25_CreateFrame ==
  [][Len(orders') # Len(orders) =>
       /\ Len(orders') = Len(orders) + 1
       /\ orders'[Len(orders')].status = "created_unpaid"
       /\ orders'[Len(orders')].trackingId = NoId
       /\ SubSeq(orders', 1, Len(orders)) = orders
       /\ UNCHANGED <<stock, reservations, payments, shipments, stages>>]_vars

\* Order 2 has been created and not paid: it is created_unpaid without a
\* trackingId, and no reservation, payment or shipment is on it.
C25_Witness ==
  /\ Len(orders) = 2
  /\ orders[2].status = "created_unpaid" /\ orders[2].trackingId = NoId
  /\ \A row \in reservations : row.reservation_id[2] # 2
  /\ \A row \in payments : row.order_id # 2
  /\ \A row \in shipments : row.order_id # 2

\* The reservations held for an order by the saga (r-{orderId}-{now}).
ReservationsOf(id) ==
  {row \in reservations : Len(row.reservation_id) = 3 /\ row.reservation_id[2] = id}

(* C26: in every reachable state, each order has at most one active         *)
(* reservation and at most one shipment.                                    *)
C26_OnePerOrder ==
  \A id \in OrderIds :
    /\ Cardinality(ReservationsOf(id)) <= 1
    /\ Cardinality({s \in shipments : s.order_id = id}) <= 1

(* C27: payment records.  In every step every payment record stays in the   *)
(* table with the same paymentId, amount, currency and orderId, and its     *)
(* status is unchanged or goes from captured to refunded: failed stays      *)
(* failed and refunded stays refunded.                                      *)
C27_PaymentImmutable ==
  [][/\ Cardinality(payments') >= Cardinality(payments)
     /\ \A row \in payments :
          \E row2 \in payments' :
            /\ row2.payment_id = row.payment_id /\ row2.by = row.by
            /\ row2.amount = row.amount
            /\ row2.currency = row.currency
            /\ row2.order_id = row.order_id
            /\ \/ row2.status = row.status
               \/ row.status = "captured" /\ row2.status = "refunded"]_vars

\* A second record with the paymentId of the captured payment of order 1 has
\* been charged, a refund of that paymentId has returned 200, both records
\* are refunded with their own amounts, and the failed record is failed.
C27_Witness ==
  \E r1, r2 \in Reqs :
    /\ Returned(r1, "charge", 200) /\ Returned(r2, "refund", 200)
    /\ req[r2].paymentId = PaymentIdOf(1, 2)
    /\ \E row1, row2 \in PaymentsOf(PaymentIdOf(1, 2)) :
         /\ row1.by = 0 /\ row2.by = r1
         /\ row1.status = "refunded" /\ row2.status = "refunded"
         /\ row1.amount = Price(1) * orders[1].qty /\ row2.amount = 50
    /\ \E row \in PaymentsOf(PaymentIdOf(1, 1)) : row.status = "failed" /\ row.by = 0

\* The index of the call of the given name that was answered with a failure
\* in the call history, 0 if there is none.
FailedAt(calls, name) ==
  IF \E i \in 1..Len(calls) : calls[i].call = name /\ calls[i].code \notin {0, 200}
  THEN CHOOSE i \in 1..Len(calls) : calls[i].call = name /\ calls[i].code \notin {0, 200}
  ELSE 0

(* C28: best-effort compensation.  A pay execution calls commit at most     *)
(* once and release at most once.  After a commit that returned a failure   *)
(* its next call is fulfill, it sets the order to created_paid and returns  *)
(* 200; after a release that returned a failure its next step sets the      *)
(* order to failed and it returns 402.                                      *)
C28_BestEffort ==
  \A r \in Reqs : req[r].kind = "pay" =>
    LET calls == req[r].calls
        c == FailedAt(calls, "commit")
        l == FailedAt(calls, "release")
    IN /\ Len(CallsOf(calls, "commit")) <= 1
       /\ Len(CallsOf(calls, "release")) <= 1
       /\ c > 0 =>
            /\ Len(calls) > c => calls[c + 1].call = "fulfill" /\ calls[c + 1].code = 200
            /\ req[r].pc = "done" =>
                 /\ req[r].code = 200
                 /\ StatusSet(calls, "created_paid")
                 /\ ~StatusSet(calls, "failed")
       /\ l > 0 =>
            /\ Len(calls) > l => calls[l + 1] = Call("setOrderStatus", "failed", 0)
            /\ req[r].pc = "done" => req[r].code = 402 /\ Len(calls) = l + 1

\* One pay has returned 200 after its commit was answered with a failure and
\* its order is created_paid; another has returned 402 after its release was
\* answered with a failure and its order is failed.
C28_Witness ==
  \E r1, r2 \in Reqs :
    /\ Returned(r1, "pay", 200) /\ FailedAt(req[r1].calls, "commit") > 0
    /\ orders[req[r1].order].status = "created_paid"
    /\ Returned(r2, "pay", 402) /\ FailedAt(req[r2].calls, "release") > 0
    /\ orders[req[r2].order].status = "failed"

\* The pay requests that have run processOrder and so have a reservationId.
PayExecutions == {r \in Reqs : req[r].kind = "pay" /\ req[r].reservationId # NoId}

(* C29: fresh reservation per pay attempt.  The reservationIds of two pay   *)
(* executions differ, also when both are on the same order.                 *)
C29_FreshReservationId ==
  \A r1, r2 \in PayExecutions :
    r1 # r2 => req[r1].reservationId # req[r2].reservationId

\* The last call in the call history of a request.
LastCall(rq) == rq.calls[Len(rq.calls)]

(* C30: a non-terminal advance commits the stage on its own.  The update of *)
(* advance sets the status of the shipment to the next stage s; the later   *)
(* steps of the call (stage record, notification, push) do not change the   *)
(* shipment, whether notify and push succeed or fail; a push that succeeds  *)
(* sets the status of the order to s; the call returns 200 with status s in *)
(* every case.                                                              *)
C30_AdvanceCommits ==
  [][\A r \in Reqs : Steps(r, "advance") /\ req[r].pc # "idle" =>
       LET s == req[r].next IN
       /\ req[r].pc = "adv_update" =>
            \A row \in shipments' :
              row.tracking_id = req[r].trackingId => row.status = s
       /\ req[r].pc \in {"adv_stage", "adv_notify", "adv_push"} =>
            /\ shipments' = shipments
            /\ \A t \in DOMAIN stages :
                 t \in DOMAIN stages' /\ Len(stages'[t]) >= Len(stages[t])
       /\ req[r].pc = "adv_push" =>
            /\ LastCall(req'[r]).call = "status"
            /\ LastCall(req'[r]).code = 200 => orders'[req[r].order].status = s
            /\ req'[r].pc = "done" /\ req'[r].code = 200
            /\ req'[r].rstatus = s
            /\ req'[r].done = (s = "delivered_to_pickup")]_vars

\* An advance whose notify and push have both failed has returned 200 with
\* status collected: the shipment is in stage collected and the order is
\* still created_paid.
C30_Witness ==
  \E r \in Reqs :
    /\ Returned(r, "advance", 200) /\ req[r].rstatus = "collected"
    /\ req[r].calls = <<Call("notify", "shipment_collected", 0),
                        Call("status", "collected", 0)>>
    /\ \E row \in shipments :
         row.tracking_id = req[r].trackingId /\ row.status = "collected"
    /\ orders[req[r].order].status = "created_paid"

(* C31: order isolation.  A step of a pay execution for order A leaves the  *)
(* status and trackingId of every other order and the stock of every other  *)
(* product unchanged, and the reservation, payment and shipment records it  *)
(* creates or removes are records of A.                                     *)
C31_OrderIsolation ==
  [][\A r \in Reqs : Steps(r, "pay") /\ req'[r].order \in OrderIds =>
       LET A == req'[r].order IN
       /\ \A i \in OrderIds : i # A => orders'[i] = orders[i]
       /\ \A p \in Products : p # orders[A].productId => stock'[p] = stock[p]
       /\ \A row \in (reservations' \ reservations) \cup (reservations \ reservations') :
            row.reservation_id[2] = A /\ row.product_id = orders[A].productId
       /\ \A row \in (payments' \ payments) \cup (payments \ payments') :
            row.order_id = A
       /\ \A row \in (shipments' \ shipments) \cup (shipments \ shipments') :
            row.order_id = A
       /\ \A t \in DOMAIN stages' :
            t \notin DOMAIN stages \/ stages'[t] # stages[t] => t[2] = A]_vars

\* Two pays on two orders have both returned 200: each order is created_paid
\* with its own trackingId and its own captured payment and shipment.
C31_Witness ==
  \E r1, r2 \in Reqs :
    /\ Returned(r1, "pay", 200) /\ req[r1].order = 1
    /\ Returned(r2, "pay", 200) /\ req[r2].order = 2
    /\ orders[1].status = "created_paid" /\ orders[2].status = "created_paid"
    /\ orders[1].trackingId[2] = 1 /\ orders[2].trackingId[2] = 2
    /\ \A row \in payments : row.by = r1 <=> row.order_id = 1
    /\ \A row \in shipments : row.by = r1 <=> row.order_id = 1

(* C32: pay terminates in a decided state.  When every leaf call answers,   *)
(* every pay call that has passed the precondition returns; when it         *)
(* returns it has issued at most 3 charges and the status of its order is   *)
(* created_paid or failed.                                                  *)
C32_Termination ==
  /\ \A r \in Reqs : (req[r].kind = "pay" /\ InFlight(r)) ~> (req[r].pc = "done")
  /\ [][\A r \in Reqs : PayReturns(r) =>
          /\ Len(CallsOf(req'[r].calls, "charge")) <= 3
          /\ orders'[req[r].order].status \in {"created_paid", "failed"}]_vars

\* A pay has returned 409 after a failed reserve, another has returned 402
\* after three charges, and both orders are failed.
C32_Witness ==
  \E r1, r2 \in Reqs :
    /\ Returned(r1, "pay", 409) /\ ReserveFailed(req[r1].calls)
    /\ Returned(r2, "pay", 402) /\ Len(CallsOf(req[r2].calls, "charge")) = 3
    /\ orders[req[r1].order].status = "failed"
    /\ orders[req[r2].order].status = "failed"

\* The payment records inserted by the charges of request r.
PaymentsBy(r) == {row \in payments : row.by = r}

\* The charges of a pay execution are attempt 1 failed (402), then attempt 2
\* captured (200), and no more; it never calls release; once its second
\* charge is answered it has recorded one failed and one captured payment.
TwoAttempts(r) ==
  LET charges == CallsOf(req[r].calls, "charge") IN
  /\ Len(charges) <= 2
  /\ Len(charges) >= 1 => charges[1].code = 402
  /\ Len(charges) = 2 => 
       /\ charges[2].code = 200
       /\ Cardinality({row \in PaymentsBy(r) : row.status = "failed"}) = 1
       /\ Cardinality({row \in PaymentsBy(r) : row.status \in {"captured", "refunded"}}) = 1
  /\ req[r].pc = "done" => Len(charges) = 2
  /\ CallsOf(req[r].calls, "release") = <<>>
  /\ req[r].pc \notin {"p_notify_payment", "rel_delete", "rel_update", "p_set_failed"}

\* The amount that the pay request r charges: price times quantity.
TotalAmount(r) == Price(orders[req[r].order].productId) * orders[req[r].order].qty

(* C33 as stated: every pay that passes reservation has attempt 1 failed    *)
(* and attempt 2 captured, records exactly one failed and one captured      *)
(* payment, never issues attempt 3 and never takes the payment-failure /    *)
(* release path.                                                            *)
C33_AttemptDeterminism ==
  \A r \in Reqs :
    req[r].kind = "pay" /\ ReserveSucceeded(req[r].calls) => TwoAttempts(r)

(* C33 amended: the above for every pay whose total amount is positive; a   *)
(* pay whose total amount is 0 has every charge answered 400 and records no *)
(* payment.                                                                 *)
C33_AttemptDeterminismPositive ==
  \A r \in Reqs :
    req[r].kind = "pay" /\ ReserveSucceeded(req[r].calls) =>
      IF TotalAmount(r) > 0 THEN TwoAttempts(r)
      ELSE /\ \A k \in 1..Len(CallsOf(req[r].calls, "charge")) :
                CallsOf(req[r].calls, "charge")[k].code = 400
           /\ PaymentsBy(r) = {}

\* A pay of a positive amount has returned 200 after the charges p-1-1
\* (402) and p-1-2 (200), one failed and one captured record; a pay of
\* amount 0 has returned 402 after three charges answered 400 and a release.
C33_Witness ==
  \E r1, r2 \in Reqs :
    /\ Returned(r1, "pay", 200) /\ TotalAmount(r1) > 0
    /\ [k \in 1..2 |-> CallsOf(req[r1].calls, "charge")[k].code] = <<402, 200>>
    /\ {row.status : row \in PaymentsBy(r1)} = {"failed", "captured"}
    /\ Returned(r2, "pay", 402) /\ TotalAmount(r2) = 0
    /\ [k \in 1..3 |-> CallsOf(req[r2].calls, "charge")[k].code] = <<400, 400, 400>>
    /\ Answered(req[r2].calls, "release", 200)

\* The lifecycle of a paid order, in order.
Lifecycle ==
  <<"created_paid", "processing", "collected", "in_transit",
    "delivered_to_pickup", "received">>

\* The position of a status in the lifecycle, 0 for a status outside it.
LifeRank(status) ==
  IF \E i \in DOMAIN Lifecycle : Lifecycle[i] = status
  THEN CHOOSE i \in DOMAIN Lifecycle : Lifecycle[i] = status
  ELSE 0

(* C34: monotone order status.  No step of an advance call, a status push   *)
(* or a received call moves an order that is in the lifecycle created_paid  *)
(* < processing < collected < in_transit < delivered_to_pickup < received   *)
(* to an earlier status.                                                    *)
C34_MonotoneStatus ==
  [][\A i \in OrderIds :
       LifeRank(orders[i].status) > 0 =>
         LifeRank(orders'[i].status) >= LifeRank(orders[i].status)]_vars

(* C35: stages only after payment.  An order whose status is a shipping     *)
(* stage or received has a captured payment, and no step brings an order    *)
(* that is created_unpaid or failed to a shipping stage or to received.     *)
C35_StageOnlyAfterPaid ==
  [][\A i \in OrderIds :
       /\ Payable(orders[i].status) => LifeRank(orders'[i].status) < 2
       /\ LifeRank(orders'[i].status) >= 2 =>
            \E row \in payments' : row.order_id = i /\ row.status = "captured"]_vars

(* C36: pay after cancel.  A pay call with a valid token on an order that a *)
(* cancel has set to failed is not rejected: it passes the precondition and *)
(* runs the saga (which can bring the order to created_paid: C36_Witness).  *)
C36_PayAfterCancel ==
  [][\A r, c \in Reqs :
       ( /\ Returned(c, "cancel", 200)
         /\ orders[req[c].order].status = "failed"
         /\ req[r].pc = "idle" /\ req'[r].kind = "pay"
         /\ req'[r].auth /\ req'[r].order = req[c].order )
       => /\ req'[r].pc \notin {"idle", "done"}
          /\ req'[r].ostatus = "failed"
          /\ req'[r].reservationId # NoId]_vars

\* An order has been cancelled (200) and a later pay call on it has
\* returned 200 after a captured charge: the order is created_paid and has a
\* shipment.
C36_Witness ==
  \E c, r \in Reqs :
    /\ Returned(c, "cancel", 200) /\ Returned(r, "pay", 200)
    /\ req[r].order = req[c].order /\ req[r].ostatus = "failed"
    /\ ChargeCaptured(req[r].calls)
    /\ orders[req[r].order].status = "created_paid"
    /\ \E row \in shipments : row.order_id = req[r].order /\ row.by = r

(* C37: status/payment consistency.  In every state where no pay call is in *)
(* flight, an order whose status is failed or created_unpaid has no         *)
(* captured payment and no shipment.                                        *)
C37_StatusPaymentConsistency ==
  (\A r \in Reqs : req[r].kind = "pay" => ~InFlight(r)) =>
    \A i \in OrderIds :
      orders[i].status \in {"failed", "created_unpaid"} =>
        /\ CapturedOf(i) = {}
        /\ \A row \in shipments : row.order_id # i

(* C38: refund at most once.  Of the refund calls on one paymentId at most  *)
(* one returns refunded: true (200).                                        *)
C38_RefundAtMostOnce ==
  \A r1, r2 \in Reqs :
    ( /\ Returned(r1, "refund", 200) /\ Returned(r2, "refund", 200)
      /\ req[r1].paymentId = req[r2].paymentId )
    => r1 = r2

Delivered(rows, trackingId) ==
  \A row \in rows : row.tracking_id = trackingId => row.status = "delivered_to_pickup"

(* C40: advance on an unknown trackingId returns 404, not done, and changes *)
(* nothing: no shipment, stage, notification or order status; an advance on *)
(* a known shipment returns done = true exactly when the status of the      *)
(* shipment after the call is delivered_to_pickup.                          *)
C40_AdvanceUnknown ==
  [][\A r \in Reqs : Steps(r, "advance") =>
       /\ ( /\ req[r].pc = "idle" /\ Len(req'[r].trackingId) >= 1
            /\ ShipmentsOf(req'[r].trackingId) = {} )
          => /\ req'[r].pc = "done" /\ req'[r].code = 404 /\ ~req'[r].done
             /\ req'[r].calls = <<>>
             /\ UNCHANGED <<shipments, stages, notifications, orders>>
       /\ req'[r].pc = "done" /\ req'[r].code = 200
          => (req'[r].done <=> Delivered(shipments', req'[r].trackingId))]_vars

====
